---- MODULE Spec2Model ----
(***************************************************************************)
(* Model of the aspect-based review analysis engine                        *)
(* (src/data_collection/aspect_analyzer.py).                               *)
(*                                                                         *)
(* Python strings are sequences of one-character strings, so that          *)
(* lower(), strip(), slicing, tokenising and the substring test `k in s`   *)
(* are computed the way the code computes them.  Python values that can    *)
(* occur as review entries are records [t, s, n, d]: t is the Python type  *)
(* ("str", "int", "none", "dict"), s the characters of a str, n the value  *)
(* of an int and d the fields of a dict.                                   *)
(***************************************************************************)
EXTENDS Integers, Sequences, FiniteSets, TLC

\* ------------------------------------------------------------------ bounds

\* Longest review list handed to analyze_reviews.
MaxReviews == 2

\* Largest counter of a tally handed to _format_aspect_result directly.
MaxTally == 3

\* Longest review list handed to _calculate_confidence directly.
MaxConfidenceReviews == 25

\* Most aspects of an aspects map handed to _calculate_confidence directly.
MaxConfidenceAspects == 6

\* Longest review list handed to _extract_key_themes directly.
MaxThemeReviews == 2

\* Largest max_reviews handed to get_flipkart_reviews.
MaxWanted == 21

\* Most review blocks on one page of reviews.
MaxBlocks == 2

\* the last reading of the clock (datetime.now(), in hours) in a run of the cache
MaxClock == 2

\* the longest review list handed to _generate_overall_feedback (3 of 5 is 60%)
MaxFeedbackReviews == 5

\* the largest aspects map handed to _generate_overall_feedback and to
\* _build_competitor_recommendations (one name more than is ever listed)
MaxFeedbackAspects == 4

\* the longest competitor list handed to _build_competitor_recommendations
\* (one more than it takes)
MaxCompetitors == 5

\* ------------------------------------------------------------ Python strings

UpperLetters == <<"A","B","C","D","E","F","G","H","I","J","K","L","M","N","O","P","Q","R","S","T","U","V","W","X","Y","Z">>

LowerLetters == <<"a","b","c","d","e","f","g","h","i","j","k","l","m","n","o","p","q","r","s","t","u","v","w","x","y","z">>

DigitChars == <<"0","1","2","3","4","5","6","7","8","9">>

Whitespace == {" ", "\t", "\n"}

Range(s) == {s[i] : i \in DOMAIN s}

UpperSet == Range(UpperLetters)

LowerSet == Range(LowerLetters)

DigitSet == Range(DigitChars)

\* the lower-case letter of each upper-case letter, and the converse
ToLowerMap == [c \in UpperSet |-> LowerLetters[CHOOSE i \in DOMAIN UpperLetters : UpperLetters[i] = c]]

ToUpperMap == [c \in LowerSet |-> UpperLetters[CHOOSE i \in DOMAIN LowerLetters : LowerLetters[i] = c]]

\* str.lower() on one character
LowerChar(c) == IF c \in UpperSet THEN ToLowerMap[c] ELSE c

\* str.upper() on one character
UpperChar(c) == IF c \in LowerSet THEN ToUpperMap[c] ELSE c

\* str.lower()
Lower(s) == [i \in 1..Len(s) |-> LowerChar(s[i])]

\* str.capitalize(): first character upper-cased, the rest lower-cased
Capitalize(s) == [i \in 1..Len(s) |-> IF i = 1 THEN UpperChar(s[i]) ELSE LowerChar(s[i])]

\* the Python test `sub in s` on strings
Contains(sub, s) == \E i \in 0..(Len(s) - Len(sub)) : \A j \in 1..Len(sub) : s[i + j] = sub[j]

\* any(k in s for k in keywords)
AnyIn(keywords, s) == \E i \in DOMAIN keywords : Contains(keywords[i], s)

\* mutant of Strip: the text is not trimmed
Strip_NotTrimmed(s) == s

\* str.strip(): leading and trailing whitespace removed
Strip(s) ==
    LET keep == {i \in DOMAIN s : s[i] \notin Whitespace}
    IN  IF keep = {} THEN <<>>
        ELSE LET lo == CHOOSE i \in keep : \A j \in keep : i <= j
                 hi == CHOOSE i \in keep : \A j \in keep : j <= i
             IN  SubSeq(s, lo, hi)

\* the slice s[:n]
Prefix(s, n) == SubSeq(s, 1, IF Len(s) < n THEN Len(s) ELSE n)

\* the characters \w of a regular expression
WordCharSet == UpperSet \cup LowerSet \cup DigitSet \cup {"_"}

IsWordChar(c) == c \in WordCharSet

RECURSIVE SplitRuns(_, _, _, _)
\* the maximal runs of characters satisfying keep (keep[c] is a boolean), left to right
SplitRuns(s, i, cur, keep) ==
    IF i > Len(s) THEN (IF cur = <<>> THEN <<>> ELSE <<cur>>)
    ELSE IF keep[s[i]] THEN SplitRuns(s, i + 1, Append(cur, s[i]), keep)
    ELSE (IF cur = <<>> THEN <<>> ELSE <<cur>>) \o SplitRuns(s, i + 1, <<>>, keep)

\* re.findall(r'\b\w+\b', s)
FindWords(s) == SplitRuns(s, 1, <<>>, [c \in Range(s) |-> IsWordChar(c)])

RECURSIVE JoinSpace(_)
\* ' '.join(tokens)
JoinSpace(tokens) ==
    IF tokens = <<>> THEN <<>>
    ELSE IF Len(tokens) = 1 THEN tokens[1]
    ELSE tokens[1] \o <<" ">> \o JoinSpace(Tail(tokens))

RECURSIVE IntDigits(_)
\* the decimal digits of a natural number
IntDigits(n) == IF n < 10 THEN <<DigitChars[n + 1]>> ELSE Append(IntDigits(n \div 10), DigitChars[(n % 10) + 1])

\* ------------------------------------------------------------- Python values

PyStr(s) == [s |-> s, n |-> 0, t |-> "str", d |-> <<>>]

PyInt(n) == [s |-> <<>>, n |-> n, t |-> "int", d |-> <<>>]

PyNone == [s |-> <<>>, n |-> 0, t |-> "none", d |-> <<>>]

PyDict(d) == [s |-> <<>>, n |-> 0, t |-> "dict", d |-> d]

\* truth value of a Python object, as `or` and `if` test it
Truthy(value) ==
    CASE value.t = "str" -> value.s # <<>>
      [] value.t = "int" -> value.n # 0
      [] value.t = "none" -> FALSE
      [] value.t = "dict" -> DOMAIN value.d # {}

\* str(value) for a str, an int or None
ToStr(value) ==
    CASE value.t = "str" -> value.s
      [] value.t = "int" -> (IF value.n < 0 THEN <<"-">> \o IntDigits(0 - value.n) ELSE IntDigits(value.n))
      [] value.t = "none" -> <<"N","o","n","e">>

\* dict.get(key): the value, or None when the key is absent
DictGet(r, key) == IF key \in DOMAIN r.d THEN r.d[key] ELSE PyNone

\* ------------------------------------------------------------ module tables

BRAND_TO_CATEGORY == <<
    <<<<"S","a","m","s","u","n","g">>, <<"m","o","b","i","l","e">>>>, <<<<"R","e","a","l","m","e">>, <<"m","o","b","i","l","e">>>>, <<<<"V","i","v","o">>, <<"m","o","b","i","l","e">>>>, <<<<"O","p","p","o">>, <<"m","o","b","i","l","e">>>>,
    <<<<"O","n","e","P","l","u","s">>, <<"m","o","b","i","l","e">>>>, <<<<"A","p","p","l","e">>, <<"m","o","b","i","l","e">>>>, <<<<"M","o","t","o","r","o","l","a">>, <<"m","o","b","i","l","e">>>>, <<<<"X","i","a","o","m","i">>, <<"m","o","b","i","l","e">>>>,
    <<<<"H","P">>, <<"l","a","p","t","o","p">>>>, <<<<"D","e","l","l">>, <<"l","a","p","t","o","p">>>>, <<<<"L","e","n","o","v","o">>, <<"l","a","p","t","o","p">>>>, <<<<"A","s","u","s">>, <<"l","a","p","t","o","p">>>>, <<<<"A","c","e","r">>, <<"l","a","p","t","o","p">>>>,
    <<<<"S","o","n","y">>, <<"t","e","l","e","v","i","s","i","o","n">>>>, <<<<"L","G">>, <<"t","e","l","e","v","i","s","i","o","n">>>>, <<<<"T","C","L">>, <<"t","e","l","e","v","i","s","i","o","n">>>>,
    <<<<"B","o","a","t">>, <<"a","u","d","i","o">>>>, <<<<"N","o","i","s","e">>, <<"a","u","d","i","o">>>>, <<<<"J","B","L">>, <<"a","u","d","i","o">>>>,
    <<<<"B","a","t","a">>, <<"f","o","o","t","w","e","a","r">>>>, <<<<"S","p","a","r","x">>, <<"f","o","o","t","w","e","a","r">>>>, <<<<"P","u","m","a">>, <<"f","o","o","t","w","e","a","r">>>>, <<<<"N","i","k","e">>, <<"f","o","o","t","w","e","a","r">>>>,
    <<<<"W","h","i","r","l","p","o","o","l">>, <<"h","o","m","e","_","a","p","p","l","i","a","n","c","e">>>>, <<<<"G","o","d","r","e","j">>, <<"h","o","m","e","_","a","p","p","l","i","a","n","c","e">>>>, <<<<"H","a","i","e","r">>, <<"h","o","m","e","_","a","p","p","l","i","a","n","c","e">>>> >>

COMPETITOR_MAP == <<
    <<<<"m","o","b","i","l","e">>, <<<<"S","a","m","s","u","n","g">>, <<"R","e","a","l","m","e">>, <<"V","i","v","o">>, <<"O","p","p","o">>, <<"O","n","e","P","l","u","s">>, <<"A","p","p","l","e">>, <<"M","o","t","o","r","o","l","a">>, <<"X","i","a","o","m","i">>>> >>,
    <<<<"l","a","p","t","o","p">>, <<<<"H","P">>, <<"D","e","l","l">>, <<"L","e","n","o","v","o">>, <<"A","s","u","s">>, <<"A","c","e","r">>, <<"A","p","p","l","e">>>> >>,
    <<<<"t","e","l","e","v","i","s","i","o","n">>, <<<<"S","o","n","y">>, <<"L","G">>, <<"T","C","L">>, <<"S","a","m","s","u","n","g">>, <<"M","i">>>> >>,
    <<<<"a","u","d","i","o">>, <<<<"B","o","a","t">>, <<"N","o","i","s","e">>, <<"J","B","L">>, <<"S","o","n","y">>, <<"R","e","a","l","m","e">>>> >>,
    <<<<"f","o","o","t","w","e","a","r">>, <<<<"B","a","t","a">>, <<"S","p","a","r","x">>, <<"P","u","m","a">>, <<"N","i","k","e">>, <<"A","d","i","d","a","s">>, <<"C","a","m","p","u","s">>>> >>,
    <<<<"f","a","s","h","i","o","n">>, <<<<"Z","a","r","a">>, <<"H","&","M">>, <<"M","a","x">>, <<"A","l","l","e","n"," ","S","o","l","l","y">>, <<"P","e","t","e","r"," ","E","n","g","l","a","n","d">>>> >>,
    <<<<"h","o","m","e","_","a","p","p","l","i","a","n","c","e">>, <<<<"W","h","i","r","l","p","o","o","l">>, <<"G","o","d","r","e","j">>, <<"H","a","i","e","r">>, <<"L","G">>, <<"S","a","m","s","u","n","g">>>> >> >>

\* the keyword lists of detect_product_category, in the order of its elif chain
CATEGORY_KEYWORDS == <<
    <<<<"m","o","b","i","l","e">>, <<<<"p","h","o","n","e">>, <<"m","o","b","i","l","e">>, <<"s","m","a","r","t","p","h","o","n","e">>, <<"5","g">>>> >>,
    <<<<"l","a","p","t","o","p">>, <<<<"l","a","p","t","o","p">>, <<"n","o","t","e","b","o","o","k">>, <<"m","a","c","b","o","o","k">>, <<"c","h","r","o","m","e","b","o","o","k">>>> >>,
    <<<<"t","e","l","e","v","i","s","i","o","n">>, <<<<"t","v">>, <<"t","e","l","e","v","i","s","i","o","n">>, <<"s","m","a","r","t"," ","t","v">>, <<"q","l","e","d">>>> >>,
    <<<<"a","u","d","i","o">>, <<<<"e","a","r","p","h","o","n","e">>, <<"h","e","a","d","p","h","o","n","e">>, <<"e","a","r","b","u","d">>, <<"s","p","e","a","k","e","r">>, <<"s","o","u","n","d","b","a","r">>>> >>,
    <<<<"f","o","o","t","w","e","a","r">>, <<<<"s","h","o","e">>, <<"s","l","i","p","p","e","r">>, <<"s","a","n","d","a","l">>, <<"b","o","o","t">>, <<"s","n","e","a","k","e","r">>>> >>,
    <<<<"f","a","s","h","i","o","n">>, <<<<"s","h","i","r","t">>, <<"p","a","n","t">>, <<"j","e","a","n">>, <<"d","r","e","s","s">>, <<"t","s","h","i","r","t">>, <<"k","u","r","t","i">>>> >>,
    <<<<"h","o","m","e","_","a","p","p","l","i","a","n","c","e">>, <<<<"r","e","f","r","i","g","e","r","a","t","o","r">>, <<"w","a","s","h","i","n","g">>, <<"m","i","c","r","o","w","a","v","e">>, <<"a","c">>, <<"c","o","o","l","e","r">>>> >> >>

\* brand.lower() of every brand of the table, entry by entry
brands_lower == [i \in DOMAIN BRAND_TO_CATEGORY |-> Lower(BRAND_TO_CATEGORY[i][1])]

\* indices of the brands whose lower-cased name occurs in the lower-cased product name
BrandHits(name_lower) == {i \in DOMAIN BRAND_TO_CATEGORY : Contains(brands_lower[i], name_lower)}

\* the least element of a non-empty set of integers (first hit of a loop with break)
First(S) == CHOOSE i \in S : \A j \in S : i <= j

\* mutant of detect_product_category: the keyword lists are tried before the
\* brand table
detect_product_category_KeywordsFirst(product_name) ==
    LET name == Lower(product_name)
        brands == BrandHits(name)
        kw == {i \in DOMAIN CATEGORY_KEYWORDS : AnyIn(CATEGORY_KEYWORDS[i][2], name)}
    IN  IF kw # {} THEN CATEGORY_KEYWORDS[First(kw)][1]
        ELSE IF brands # {} THEN BRAND_TO_CATEGORY[First(brands)][2]
        ELSE <<"g","e","n","e","r","a","l">>

\* mutant of detect_product_category: of the keyword lists that match, the
\* last one decides
detect_product_category_LastList(product_name) ==
    LET name == Lower(product_name)
        brands == BrandHits(name)
        kw == {i \in DOMAIN CATEGORY_KEYWORDS : AnyIn(CATEGORY_KEYWORDS[i][2], name)}
    IN  IF brands # {} THEN BRAND_TO_CATEGORY[First(brands)][2]
        ELSE IF kw # {} THEN CATEGORY_KEYWORDS[CHOOSE i \in kw : \A j \in kw : j <= i][1]
        ELSE <<"g","e","n","e","r","a","l">>

detect_product_category(product_name) ==
    LET name == Lower(product_name)
        brands == BrandHits(name)
        kw == {i \in DOMAIN CATEGORY_KEYWORDS : AnyIn(CATEGORY_KEYWORDS[i][2], name)}
    IN  IF brands # {} THEN BRAND_TO_CATEGORY[First(brands)][2]
        ELSE IF kw # {} THEN CATEGORY_KEYWORDS[First(kw)][1]
        ELSE <<"g","e","n","e","r","a","l">>

\* COMPETITOR_MAP.get(category, [])
CompetitorsOf(category) ==
    LET hit == {i \in DOMAIN COMPETITOR_MAP : COMPETITOR_MAP[i][1] = category}
    IN  IF hit = {} THEN <<>> ELSE COMPETITOR_MAP[First(hit)][2]

\* the sentinel for detected_brand = None
NoBrand == <<>>

\* mutant of recommend_competitors: the detected brand stays in the list
recommend_competitors_KeepsBrand(product_name) ==
    LET category == detect_product_category(product_name)
        brands == BrandHits(Lower(product_name))
        detected_brand == IF brands = {} THEN NoBrand ELSE BRAND_TO_CATEGORY[First(brands)][1]
        competitors == CompetitorsOf(category)
    IN  [category |-> category, competitors |-> Prefix(competitors, 5), detected_brand |-> detected_brand]

recommend_competitors(product_name) ==
    LET category == detect_product_category(product_name)
        brands == BrandHits(Lower(product_name))
        detected_brand == IF brands = {} THEN NoBrand ELSE BRAND_TO_CATEGORY[First(brands)][1]
        competitors == CompetitorsOf(category)
        kept == IF detected_brand # NoBrand
                THEN SelectSeq(competitors, LAMBDA c : Lower(c) # Lower(detected_brand))
                ELSE competitors
    IN  [category |-> category, competitors |-> Prefix(kept, 5), detected_brand |-> detected_brand]

\* ---------------------------------------------------------------- __init__

aspect_keywords == <<
    <<<<"b","a","t","t","e","r","y">>, <<<<"b","a","t","t","e","r","y">>, <<"b","a","t","t","e","r","i","e","s">>, <<"c","h","a","r","g","e">>, <<"c","h","a","r","g","e","s">>, <<"c","h","a","r","g","i","n","g">>, <<"c","h","a","r","g","e","d">>,
                    <<"b","a","c","k","u","p">>, <<"p","o","w","e","r">>, <<"m","a","h">>, <<"j","u","i","c","e">>, <<"d","r","a","i","n">>, <<"d","r","a","i","n","i","n","g">>, <<"l","i","f","e">>>> >>,
    <<<<"d","i","s","p","l","a","y">>, <<<<"d","i","s","p","l","a","y">>, <<"d","i","s","p","l","a","y","s">>, <<"s","c","r","e","e","n">>, <<"s","c","r","e","e","n","s">>, <<"b","r","i","g","h","t","n","e","s","s">>, <<"b","r","i","g","h","t">>,
                    <<"t","o","u","c","h">>, <<"r","e","s","o","l","u","t","i","o","n">>, <<"a","m","o","l","e","d">>, <<"l","c","d">>, <<"o","l","e","d">>, <<"r","e","f","r","e","s","h">>, <<"p","a","n","e","l">>>> >>,
    <<<<"p","e","r","f","o","r","m","a","n","c","e">>, <<<<"p","e","r","f","o","r","m","a","n","c","e">>, <<"p","e","r","f","o","r","m">>, <<"p","e","r","f","o","r","m","s">>, <<"s","p","e","e","d">>, <<"f","a","s","t">>, <<"f","a","s","t","e","r">>,
                        <<"s","l","o","w">>, <<"s","l","o","w","e","r">>, <<"l","a","g">>, <<"l","a","g","s">>, <<"l","a","g","g","i","n","g">>, <<"l","a","g","g","y">>, <<"p","r","o","c","e","s","s","o","r">>,
                        <<"r","a","m">>, <<"s","m","o","o","t","h">>, <<"s","m","o","o","t","h","l","y">>, <<"m","u","l","t","i","t","a","s","k">>, <<"m","u","l","t","i","t","a","s","k","i","n","g">>, <<"h","a","n","g">>, <<"h","a","n","g","s">>>> >>,
    <<<<"d","e","s","i","g","n">>, <<<<"d","e","s","i","g","n">>, <<"d","e","s","i","g","n","e","d">>, <<"l","o","o","k">>, <<"l","o","o","k","s">>, <<"l","o","o","k","i","n","g">>, <<"b","u","i","l","d">>, <<"b","u","i","l","t">>,
                   <<"q","u","a","l","i","t","y">>, <<"p","r","e","m","i","u","m">>, <<"b","o","d","y">>, <<"f","i","n","i","s","h">>, <<"f","i","n","i","s","h","i","n","g">>, <<"a","e","s","t","h","e","t","i","c">>,
                   <<"a","e","s","t","h","e","t","i","c","s">>, <<"a","p","p","e","a","r","a","n","c","e">>, <<"s","l","e","e","k">>>> >>,
    <<<<"c","a","m","e","r","a">>, <<<<"c","a","m","e","r","a">>, <<"c","a","m","e","r","a","s">>, <<"p","h","o","t","o">>, <<"p","h","o","t","o","s">>, <<"p","i","c","t","u","r","e">>, <<"p","i","c","t","u","r","e","s">>, <<"p","i","c">>,
                   <<"v","i","d","e","o">>, <<"v","i","d","e","o","s">>, <<"s","e","l","f","i","e">>, <<"s","e","l","f","i","e","s">>, <<"l","e","n","s">>, <<"m","e","g","a","p","i","x","e","l">>, <<"m","p">>,
                   <<"c","l","a","r","i","t","y">>, <<"z","o","o","m">>, <<"z","o","o","m","i","n","g">>, <<"s","h","o","t">>, <<"s","h","o","t","s">>>> >>,
    <<<<"s","o","u","n","d">>, <<<<"s","o","u","n","d">>, <<"s","o","u","n","d","s">>, <<"a","u","d","i","o">>, <<"s","p","e","a","k","e","r">>, <<"s","p","e","a","k","e","r","s">>, <<"m","u","s","i","c">>, <<"v","o","l","u","m","e">>,
                  <<"l","o","u","d">>, <<"l","o","u","d","n","e","s","s">>, <<"h","e","a","d","p","h","o","n","e">>, <<"h","e","a","d","p","h","o","n","e","s">>, <<"b","a","s","s">>, <<"t","r","e","b","l","e">>, <<"c","l","a","r","i","t","y">>>> >>,
    <<<<"p","r","i","c","e">>, <<<<"p","r","i","c","e">>, <<"p","r","i","c","e","s">>, <<"p","r","i","c","e","d">>, <<"v","a","l","u","e">>, <<"w","o","r","t","h">>, <<"m","o","n","e","y">>, <<"e","x","p","e","n","s","i","v","e">>,
                  <<"c","h","e","a","p">>, <<"c","h","e","a","p","e","r">>, <<"a","f","f","o","r","d","a","b","l","e">>, <<"c","o","s","t">>, <<"c","o","s","t","s">>, <<"c","o","s","t","l","y">>, <<"v","f","m">>,
                  <<"o","v","e","r","p","r","i","c","e","d">>, <<"b","u","d","g","e","t">>>> >>,
    <<<<"s","o","f","t","w","a","r","e">>, <<<<"s","o","f","t","w","a","r","e">>, <<"u","i">>, <<"u","p","d","a","t","e">>, <<"u","p","d","a","t","e","s">>, <<"u","p","d","a","t","e","d">>, <<"a","n","d","r","o","i","d">>, <<"i","o","s">>,
                     <<"i","n","t","e","r","f","a","c","e">>, <<"a","p","p">>, <<"a","p","p","s">>, <<"s","y","s","t","e","m">>, <<"b","l","o","a","t","w","a","r","e">>, <<"o","s">>>> >>,
    <<<<"h","e","a","t","i","n","g">>, <<<<"h","e","a","t">>, <<"h","e","a","t","s">>, <<"h","e","a","t","e","d">>, <<"h","e","a","t","i","n","g">>, <<"w","a","r","m">>, <<"w","a","r","m","e","r">>, <<"h","o","t">>,
                    <<"h","o","t","t","e","r">>, <<"t","e","m","p","e","r","a","t","u","r","e">>, <<"t","h","e","r","m","a","l">>, <<"o","v","e","r","h","e","a","t">>, <<"o","v","e","r","h","e","a","t","i","n","g">>>> >>,
    <<<<"d","u","r","a","b","i","l","i","t","y">>, <<<<"d","u","r","a","b","l","e">>, <<"d","u","r","a","b","i","l","i","t","y">>, <<"l","a","s","t","i","n","g">>, <<"l","a","s","t">>, <<"l","a","s","t","s">>, <<"s","t","u","r","d","y">>,
                       <<"f","r","a","g","i","l","e">>, <<"b","r","e","a","k">>, <<"b","r","e","a","k","s">>, <<"b","r","o","k","e","n">>, <<"s","c","r","a","t","c","h">>, <<"s","c","r","a","t","c","h","e","s">>,
                       <<"s","c","r","a","t","c","h","e","d">>>> >>,
    <<<<"d","e","l","i","v","e","r","y">>, <<<<"d","e","l","i","v","e","r","y">>, <<"d","e","l","i","v","e","r","e","d">>, <<"s","h","i","p","p","i","n","g">>, <<"s","h","i","p","p","e","d">>, <<"p","a","c","k","a","g","i","n","g">>,
                     <<"p","a","c","k","a","g","e">>, <<"p","a","c","k","e","d">>, <<"b","o","x">>, <<"b","o","x","e","d">>, <<"r","e","c","e","i","v","e","d">>, <<"r","e","c","e","i","v","e">>>> >>,
    <<<<"s","e","r","v","i","c","e">>, <<<<"s","e","r","v","i","c","e">>, <<"s","e","r","v","i","c","e","s">>, <<"s","u","p","p","o","r","t">>, <<"w","a","r","r","a","n","t","y">>, <<"r","e","p","l","a","c","e","m","e","n","t">>,
                    <<"r","e","p","l","a","c","e">>, <<"c","u","s","t","o","m","e","r">>, <<"c","a","r","e">>, <<"h","e","l","p","l","i","n","e">>>> >>,
    <<<<"c","o","o","l","i","n","g">>, <<<<"c","o","o","l">>, <<"c","o","o","l","i","n","g">>, <<"c","h","i","l","l">>, <<"c","h","i","l","l","i","n","g">>, <<"c","o","l","d">>, <<"t","e","m","p","e","r","a","t","u","r","e">>, <<"h","o","t"," ","r","o","o","m">>, <<"h","e","a","t"," ","w","a","v","e">>>> >>,
    <<<<"p","o","w","e","r","_","c","o","n","s","u","m","p","t","i","o","n">>, <<<<"p","o","w","e","r">>, <<"e","l","e","c","t","r","i","c","i","t","y">>, <<"u","n","i","t","s">>, <<"c","o","n","s","u","m","p","t","i","o","n">>, <<"e","n","e","r","g","y">>, <<"e","f","f","i","c","i","e","n","t">>, <<"i","n","v","e","r","t","e","r">>, <<"s","t","a","r"," ","r","a","t","i","n","g">>>> >>,
    <<<<"n","o","i","s","e">>, <<<<"n","o","i","s","e">>, <<"n","o","i","s","y">>, <<"s","i","l","e","n","t">>, <<"q","u","i","e","t">>, <<"s","o","u","n","d">>, <<"h","u","m","m","i","n","g">>, <<"v","i","b","r","a","t","i","o","n">>>> >>,
    <<<<"i","n","s","t","a","l","l","a","t","i","o","n">>, <<<<"i","n","s","t","a","l","l">>, <<"i","n","s","t","a","l","l","a","t","i","o","n">>, <<"i","n","s","t","a","l","l","e","d">>, <<"t","e","c","h","n","i","c","i","a","n">>, <<"f","i","t","t","i","n","g">>, <<"m","o","u","n","t","i","n","g">>, <<"p","i","p","e","s">>, <<"d","r","a","i","n">>, <<"o","u","t","d","o","o","r"," ","u","n","i","t">>>> >>,
    <<<<"r","e","m","o","t","e">>, <<<<"r","e","m","o","t","e">>, <<"r","e","m","o","t","e"," ","c","o","n","t","r","o","l">>, <<"b","u","t","t","o","n","s">>, <<"d","i","s","p","l","a","y"," ","p","a","n","e","l">>, <<"l","e","d"," ","p","a","n","e","l">>>> >>,
    <<<<"a","i","r","f","l","o","w">>, <<<<"a","i","r","f","l","o","w">>, <<"s","w","i","n","g">>, <<"t","h","r","o","w">>, <<"v","e","n","t">>, <<"a","i","r"," ","t","h","r","o","w">>, <<"f","a","n"," ","s","p","e","e","d">>>> >>,
    <<<<"c","o","m","p","r","e","s","s","o","r">>, <<<<"c","o","m","p","r","e","s","s","o","r">>, <<"c","o","o","l","a","n","t">>, <<"g","a","s">>, <<"r","e","f","r","i","g","e","r","a","n","t">>, <<"c","o","n","d","e","n","s","e","r">>, <<"e","v","a","p","o","r","a","t","o","r">>>> >> >>

category_aspects == <<
    <<<<"m","o","b","i","l","e">>, {<<"b","a","t","t","e","r","y">>, <<"d","i","s","p","l","a","y">>, <<"p","e","r","f","o","r","m","a","n","c","e">>, <<"d","e","s","i","g","n">>, <<"c","a","m","e","r","a">>, <<"s","o","u","n","d">>,
                 <<"p","r","i","c","e">>, <<"s","o","f","t","w","a","r","e">>, <<"h","e","a","t","i","n","g">>, <<"d","u","r","a","b","i","l","i","t","y">>, <<"d","e","l","i","v","e","r","y">>, <<"s","e","r","v","i","c","e">>}>>,
    <<<<"l","a","p","t","o","p">>, {<<"b","a","t","t","e","r","y">>, <<"d","i","s","p","l","a","y">>, <<"p","e","r","f","o","r","m","a","n","c","e">>, <<"d","e","s","i","g","n">>, <<"s","o","u","n","d">>, <<"p","r","i","c","e">>,
                 <<"s","o","f","t","w","a","r","e">>, <<"h","e","a","t","i","n","g">>, <<"d","u","r","a","b","i","l","i","t","y">>, <<"d","e","l","i","v","e","r","y">>, <<"s","e","r","v","i","c","e">>}>>,
    <<<<"t","e","l","e","v","i","s","i","o","n">>, {<<"d","i","s","p","l","a","y">>, <<"s","o","u","n","d">>, <<"p","r","i","c","e">>, <<"d","e","s","i","g","n">>, <<"d","u","r","a","b","i","l","i","t","y">>, <<"d","e","l","i","v","e","r","y">>, <<"s","e","r","v","i","c","e">>}>>,
    <<<<"a","u","d","i","o">>, {<<"s","o","u","n","d">>, <<"p","r","i","c","e">>, <<"d","e","s","i","g","n">>, <<"d","u","r","a","b","i","l","i","t","y">>, <<"d","e","l","i","v","e","r","y">>, <<"s","e","r","v","i","c","e">>}>>,
    <<<<"f","o","o","t","w","e","a","r">>, {<<"p","r","i","c","e">>, <<"d","e","s","i","g","n">>, <<"d","u","r","a","b","i","l","i","t","y">>, <<"d","e","l","i","v","e","r","y">>, <<"s","e","r","v","i","c","e">>}>>,
    <<<<"f","a","s","h","i","o","n">>, {<<"p","r","i","c","e">>, <<"d","e","s","i","g","n">>, <<"d","u","r","a","b","i","l","i","t","y">>, <<"d","e","l","i","v","e","r","y">>, <<"s","e","r","v","i","c","e">>}>>,
    <<<<"h","o","m","e","_","a","p","p","l","i","a","n","c","e">>, {<<"c","o","o","l","i","n","g">>, <<"p","o","w","e","r","_","c","o","n","s","u","m","p","t","i","o","n">>, <<"n","o","i","s","e">>, <<"i","n","s","t","a","l","l","a","t","i","o","n">>, <<"s","e","r","v","i","c","e">>,
                         <<"d","u","r","a","b","i","l","i","t","y">>, <<"p","r","i","c","e">>, <<"d","e","s","i","g","n">>, <<"d","e","l","i","v","e","r","y">>}>>,
    <<<<"g","e","n","e","r","a","l">>, {<<"p","r","i","c","e">>, <<"d","e","s","i","g","n">>, <<"d","u","r","a","b","i","l","i","t","y">>, <<"d","e","l","i","v","e","r","y">>, <<"s","e","r","v","i","c","e">>}>> >>

positive_words == {
    <<"g","o","o","d">>, <<"g","r","e","a","t">>, <<"e","x","c","e","l","l","e","n","t">>, <<"a","m","a","z","i","n","g">>, <<"f","a","n","t","a","s","t","i","c">>, <<"l","o","v","e">>, <<"l","o","v","e","d">>, <<"b","e","s","t">>,
    <<"a","w","e","s","o","m","e">>, <<"p","e","r","f","e","c","t">>, <<"s","u","p","e","r","b">>, <<"o","u","t","s","t","a","n","d","i","n","g">>, <<"b","r","i","l","l","i","a","n","t">>, <<"n","i","c","e">>, <<"s","a","t","i","s","f","i","e","d">>,
    <<"h","a","p","p","y">>, <<"i","m","p","r","e","s","s","e","d">>, <<"i","m","p","r","e","s","s","i","v","e">>, <<"r","e","c","o","m","m","e","n","d">>, <<"r","e","c","o","m","m","e","n","d","e","d">>, <<"s","o","l","i","d">>, <<"w","o","r","t","h">>,
    <<"p","l","e","a","s","e","d">>, <<"d","e","l","i","g","h","t","e","d">>, <<"w","o","n","d","e","r","f","u","l">>, <<"f","a","b","u","l","o","u","s">>, <<"i","n","c","r","e","d","i","b","l","e">>, <<"s","u","p","e","r","i","o","r">>, <<"t","o","p">>}

negative_words == {
    <<"b","a","d">>, <<"p","o","o","r">>, <<"t","e","r","r","i","b","l","e">>, <<"w","o","r","s","t">>, <<"a","w","f","u","l">>, <<"d","i","s","a","p","p","o","i","n","t","i","n","g">>, <<"d","i","s","a","p","p","o","i","n","t","e","d">>,
    <<"u","s","e","l","e","s","s">>, <<"w","a","s","t","e">>, <<"p","a","t","h","e","t","i","c">>, <<"h","o","r","r","i","b","l","e">>, <<"i","s","s","u","e">>, <<"i","s","s","u","e","s">>, <<"p","r","o","b","l","e","m">>,
    <<"p","r","o","b","l","e","m","s">>, <<"d","e","f","e","c","t">>, <<"d","e","f","e","c","t","i","v","e">>, <<"b","r","o","k","e","n">>, <<"r","e","g","r","e","t">>, <<"a","v","o","i","d">>, <<"f","a","u","l","t","y">>,
    <<"d","a","m","a","g","e","d">>, <<"f","a","i","l">>, <<"f","a","i","l","s">>, <<"f","a","i","l","e","d">>, <<"c","h","e","a","p">>, <<"h","a","t","e">>, <<"h","a","t","e","d">>, <<"n","e","v","e","r">>, <<"n","o","t">>}

\* ----------------------------------------------------------- _clean_reviews

\* the fields _clean_reviews tries, in the order of its `or` chain
TEXT_FIELDS == <<"review_text", "review", "text", "body", "content">>

\* mutant of FirstTruthyField: the first field that is present and not None
\* wins, even when it is empty
FirstTruthyField_NonNull(r) ==
    LET hit == {i \in DOMAIN TEXT_FIELDS : DictGet(r, TEXT_FIELDS[i]).t # "none"}
    IN  IF hit = {} THEN PyStr(<<>>) ELSE DictGet(r, TEXT_FIELDS[CHOOSE i \in hit : \A j \in hit : i <= j])

\* r.get("review_text") or r.get("review") or ... or ""
FirstTruthyField(r) ==
    LET hit == {i \in DOMAIN TEXT_FIELDS : Truthy(DictGet(r, TEXT_FIELDS[i]))}
    IN  IF hit = {} THEN PyStr(<<>>) ELSE DictGet(r, TEXT_FIELDS[First(hit)])

\* the text _clean_reviews takes from one entry, before strip()
EntryText(r) == IF r.t = "dict" THEN FirstTruthyField(r) ELSE PyStr(ToStr(r))

\* str(text).strip() of one entry
CleanText(r) == Strip(ToStr(EntryText(r)))

RECURSIVE _clean_reviews(_)
_clean_reviews(reviews) ==
    IF reviews = <<>> THEN <<>>
    ELSE LET text == CleanText(Head(reviews))
         IN  (IF text # <<>> THEN <<text>> ELSE <<>>) \o _clean_reviews(Tail(reviews))

\* ------------------------------------------------------------ module state

\* env: what is installed where the module is imported.
\*   textblob: the sentiment-polarity backend (import at line 10)
\*   nltk: "absent" (import fails), "nodata" (package without its corpora,
\*         so tokenising, tagging and lemmatising raise LookupError), "ok"
\* loaded: "no" before the import, "ok" after it, "error" when it raised
\* NLTK_AVAILABLE: the module flag set by the guarded import
\* pc: where the one analyze_reviews call stands: "idle" (no call), "aspects"
\*     (in the review loop of _analyze_aspects), "done" (returned)
\* product_name, reviews: the arguments of the call
\* category, competitors, clean_reviews, idx, aspect_data: its locals
\* confidence_calls: the review counts _calculate_confidence was called with
\* result: the dict the call returned
\* call: the latest direct call of one function of the module: its name, its
\*       arguments and what it returned
\* threads: for each of two threads calling analyze_reviews on one analyzer,
\*       where its call stands, its arguments, its locals and its result
\* frames: the aspect_data of the call of each thread
\* scraper: a FlipkartScraper and its call of get_flipkart_reviews: where the
\*       call stands, its arguments, its locals, the number of HTTP requests
\*       it has issued and what it returned
VARIABLES env, loaded, NLTK_AVAILABLE, pc, product_name, reviews, category, competitors,
          clean_reviews, idx, aspect_data, confidence_calls, result, call, threads, frames,
          scraper, cache, tables

vars == <<env, loaded, NLTK_AVAILABLE, pc, product_name, reviews, category, competitors,
          clean_reviews, idx, aspect_data, confidence_calls, result, call, threads, frames, scraper, cache, tables>>

\* ---------------------------------------------------------- NLTK, TextBlob

\* nltk.word_tokenize on the texts modelled here: runs of word characters
\* (the texts carry no punctuation)
word_tokenize(s) == FindWords(s)

\* WordNetLemmatizer.lemmatize on the words of the modelled texts: the noun
\* plurals WordNet reduces; every other token is returned unchanged
LEMMAS == <<
    <<<<"q","u","a","l","i","t","i","e","s">>, <<"q","u","a","l","i","t","y">>>>, <<<<"b","a","t","t","e","r","i","e","s">>, <<"b","a","t","t","e","r","y">>>>, <<<<"c","a","m","e","r","a","s">>, <<"c","a","m","e","r","a">>>> >>

lemmatize(token) ==
    LET hit == {i \in DOMAIN LEMMAS : LEMMAS[i][1] = token}
    IN  IF hit = {} THEN token ELSE LEMMAS[First(hit)][2]

_lemmatize_text(text) ==
    IF ~NLTK_AVAILABLE THEN text
    ELSE IF env.nltk # "ok" THEN Lower(text)
    ELSE LET tokens == word_tokenize(Lower(text))
         IN  JoinSpace([i \in DOMAIN tokens |-> lemmatize(tokens[i])])

\* nltk.pos_tag on the words of the modelled texts: the adjectives among
\* them are tagged JJ, numbers CD, every other word NN
ADJECTIVES == {<<"g","o","o","d">>, <<"g","r","e","a","t">>, <<"b","a","d">>, <<"p","o","o","r">>, <<"e","x","c","e","l","l","e","n","t">>, <<"t","e","r","r","i","b","l","e">>, <<"n","i","c","e">>}

pos_tag(token) ==
    IF token \in ADJECTIVES THEN "JJ"
    ELSE IF \A i \in DOMAIN token : token[i] \in DigitSet THEN "CD"
    ELSE "NN"

\* TextBlob's lexicon, in hundredths, for the words of the modelled texts
POLARITY_LEXICON == <<
    <<<<"g","o","o","d">>, 70>>, <<<<"g","r","e","a","t">>, 80>>, <<<<"b","a","d">>, -70>>, <<<<"p","o","o","r">>, -40>>,
    <<<<"e","x","c","e","l","l","e","n","t">>, 100>>, <<<<"t","e","r","r","i","b","l","e">>, -100>>, <<<<"n","i","c","e">>, 60>> >>

RECURSIVE SumSeq(_)
SumSeq(s) == IF s = <<>> THEN 0 ELSE Head(s) + SumSeq(Tail(s))

\* TextBlob(text).sentiment.polarity as the fraction num/(100*den): the mean
\* of the lexicon values of the words of the text the lexicon knows, 0 if none
Polarity(text) ==
    LET words == FindWords(Lower(text))
        known == SelectSeq(words, LAMBDA w : \E i \in DOMAIN POLARITY_LEXICON : POLARITY_LEXICON[i][1] = w)
        value(w) == POLARITY_LEXICON[First({i \in DOMAIN POLARITY_LEXICON : POLARITY_LEXICON[i][1] = w})][2]
    IN  IF known = <<>> THEN [num |-> 0, den |-> 1]
        ELSE [num |-> SumSeq([i \in DOMAIN known |-> value(known[i])]), den |-> Len(known)]

\* ---------------------------------------------------- _get_sentence_sentiment

\* mutant of SentimentDecision: a polarity of exactly 0 no longer agrees
\* with the lexicon vote
SentimentDecision_StrictPolarity(pos_count, neg_count, num, den) ==
    IF pos_count > neg_count /\ num > 0 THEN "positive"
    ELSE IF neg_count > pos_count /\ num < 0 THEN "negative"
    ELSE IF num > 20 * den THEN "positive"
    ELSE IF num < (0 - 20) * den THEN "negative"
    ELSE "neutral"

\* the decision of _get_sentence_sentiment; polarity = num/(100*den), den > 0
SentimentDecision(pos_count, neg_count, num, den) ==
    IF pos_count > neg_count /\ num >= 0 THEN "positive"
    ELSE IF neg_count > pos_count /\ num <= 0 THEN "negative"
    ELSE IF num > 20 * den THEN "positive"
    ELSE IF num < (0 - 20) * den THEN "negative"
    ELSE "neutral"

\* _get_sentence_sentiment(text) when TextBlob answers polarity/100
SentenceSentimentWith(text, polarity) ==
    LET words == FindWords(Lower(text))
        pos_count == Len(SelectSeq(words, LAMBDA w : w \in positive_words))
        neg_count == Len(SelectSeq(words, LAMBDA w : w \in negative_words))
    IN  SentimentDecision(pos_count, neg_count, polarity, 1)

_get_sentence_sentiment(text) ==
    LET words == FindWords(Lower(text))
        pos_count == Len(SelectSeq(words, LAMBDA w : w \in positive_words))
        neg_count == Len(SelectSeq(words, LAMBDA w : w \in negative_words))
        polarity == Polarity(text)
    IN  SentimentDecision(pos_count, neg_count, polarity.num, polarity.den)

\* -------------------------------------------------------- _extract_pos_aspects

\* re.sub(r"[^a-zA-Z0-9\s]", "", s)
AlnumSpaceSet == UpperSet \cup LowerSet \cup DigitSet \cup Whitespace

KeepAlnumSpace(s) == SelectSeq(s, LAMBDA c : c \in AlnumSpaceSet)

RECURSIVE PosBigrams(_, _)
\* the adjective + noun scan over tokens i, i+1
PosBigrams(tokens, i) ==
    IF i >= Len(tokens) THEN <<>>
    ELSE LET word == tokens[i]
             hit == pos_tag(word) = "JJ" /\ pos_tag(tokens[i + 1]) = "NN"
             found == IF hit /\ word \in positive_words THEN << <<tokens[i + 1], "positive">> >>
                      ELSE IF hit /\ word \in negative_words THEN << <<tokens[i + 1], "negative">> >>
                      ELSE <<>>
         IN  found \o PosBigrams(tokens, i + 1)

_extract_pos_aspects(text) ==
    LET clean_text == KeepAlnumSpace(Lower(text))
    IN  IF env.nltk # "ok" THEN <<>> ELSE PosBigrams(word_tokenize(clean_text), 1)

\* ------------------------------------------------------------ _analyze_aspects

\* defaultdict(lambda: {'positive': 0, 'negative': 0, 'neutral': 0, 'mentions': []})
\* as the sequence of its items in insertion order, each with its key `name`
NewTally(name) == [name |-> name, positive |-> 0, negative |-> 0, neutral |-> 0, mentions |-> <<>>]

\* aspect_data[name][sentiment] += 1; aspect_data[name]['mentions'].append(mention)
AddMention(data, name, sentiment, mention) ==
    LET base == IF \E i \in DOMAIN data : data[i].name = name THEN data ELSE Append(data, NewTally(name))
        k == First({i \in DOMAIN base : base[i].name = name})
    IN  [base EXCEPT ![k] = [@ EXCEPT ![sentiment] = @ + 1, !.mentions = Append(@, mention)]]

\* mutant of ActiveAspects: every registered aspect is active
ActiveAspects_AllRegistered(cat) == {aspect_keywords[i][1] : i \in DOMAIN aspect_keywords}

\* the active aspects of a category: its activation list, or every registered
\* aspect when the category is empty or not in category_aspects
ActiveAspects(cat) ==
    LET hit == {i \in DOMAIN category_aspects : category_aspects[i][1] = cat}
    IN  IF cat # <<>> /\ hit # {} THEN category_aspects[First(hit)][2]
        ELSE {aspect_keywords[i][1] : i \in DOMAIN aspect_keywords}

\* keyword.lower() of every keyword of the registry, entry by entry
keywords_lower == [i \in DOMAIN aspect_keywords |->
                     [k \in DOMAIN aspect_keywords[i][2] |-> Lower(aspect_keywords[i][2][k])]]

\* mutant of KeywordMatched: only the first keyword of the aspect is tried
KeywordMatched_FirstOnly(keywords, review_lower, review_lemmatized) ==
    /\ keywords # <<>>
    /\ (Contains(keywords[1], review_lower) \/ Contains(keywords[1], review_lemmatized))

\* the inner keyword loop: some keyword occurs in the lower-cased or the lemmatized text
KeywordMatched(keywords, review_lower, review_lemmatized) ==
    \E i \in DOMAIN keywords :
        \/ Contains(keywords[i], review_lower)
        \/ Contains(keywords[i], review_lemmatized)

RECURSIVE KeywordPass(_, _, _, _, _, _, _)
\* Method 1: the loop over aspect_keywords.items() from entry i on
KeywordPass(data, i, review, review_lower, review_lemmatized, review_sentiment, active) ==
    IF i > Len(aspect_keywords) THEN data
    ELSE LET aspect_name == aspect_keywords[i][1]
             matched == /\ aspect_name \in active
                        /\ KeywordMatched(keywords_lower[i], review_lower, review_lemmatized)
             next == IF matched THEN AddMention(data, aspect_name, review_sentiment, Prefix(review, 150)) ELSE data
         IN  KeywordPass(next, i + 1, review, review_lower, review_lemmatized, review_sentiment, active)

RECURSIVE PosPass(_, _, _)
\* Method 2: every (aspect, sentiment) pair of _extract_pos_aspects is tallied
PosPass(data, pos_aspects, review) ==
    IF pos_aspects = <<>> THEN data
    ELSE PosPass(AddMention(data, Head(pos_aspects)[1], Head(pos_aspects)[2], Prefix(review, 150)),
                 Tail(pos_aspects), review)

\* one iteration of the review loop of _analyze_aspects
AnalyzeReviewStep(data, review, cat) ==
    IF review = <<>> THEN data
    ELSE LET after_keywords == KeywordPass(data, 1, review, Lower(review), _lemmatize_text(review),
                                           _get_sentence_sentiment(review), ActiveAspects(cat))
         IN  IF NLTK_AVAILABLE THEN PosPass(after_keywords, _extract_pos_aspects(review), review)
             ELSE after_keywords

\* ------------------------------------------------------- _format_aspect_result

_generate_aspect_reason(aspect, sentiment, data) ==
    LET total == data.positive + data.negative + data.neutral
    IN  CASE sentiment = "positive" ->
               <<"U","s","e","r","s"," ","p","r","a","i","s","e","d"," ">> \o aspect \o <<" ","i","n"," ">> \o IntDigits(data.positive) \o <<"/">> \o IntDigits(total) \o <<" ","m","e","n","t","i","o","n","s">>
          [] sentiment = "negative" ->
               <<"U","s","e","r","s"," ","c","o","m","p","l","a","i","n","e","d"," ","a","b","o","u","t"," ">> \o aspect \o <<" ","i","n"," ">> \o IntDigits(data.negative) \o <<"/">> \o IntDigits(total) \o <<" ","m","e","n","t","i","o","n","s">>
          [] sentiment = "neutral" ->
               <<"M","i","x","e","d"," ","o","p","i","n","i","o","n","s"," ","o","n"," ">> \o aspect \o <<" ","a","c","r","o","s","s"," ">> \o IntDigits(total) \o <<" ","m","e","n","t","i","o","n","s">>

\* mutant of _format_aspect_result: the distribution reports the negative
\* tally as the neutral one
_format_aspect_result_NeutralSlip(aspect_name, data) ==
    LET total == data.positive + data.negative + data.neutral
        sentiment == IF 2 * data.positive > total THEN "positive"
                     ELSE IF 2 * data.negative > total THEN "negative"
                     ELSE "neutral"
    IN  IF total = 0 THEN [sentiment |-> "neutral", reason |-> <<"N","o","t"," ","m","e","n","t","i","o","n","e","d">>, count |-> 0]
        ELSE [sentiment |-> sentiment,
              reason |-> _generate_aspect_reason(aspect_name, sentiment, data),
              count |-> total,
              distribution |-> [positive |-> data.positive, negative |-> data.negative, neutral |-> data.negative]]

\* mutant of _format_aspect_result: a ratio of exactly one half counts as a
\* majority
_format_aspect_result_HalfIsMajority(aspect_name, data) ==
    LET total == data.positive + data.negative + data.neutral
        sentiment == IF 2 * data.positive >= total THEN "positive"
                     ELSE IF 2 * data.negative >= total THEN "negative"
                     ELSE "neutral"
    IN  IF total = 0 THEN [sentiment |-> "neutral", reason |-> <<"N","o","t"," ","m","e","n","t","i","o","n","e","d">>, count |-> 0]
        ELSE [sentiment |-> sentiment,
              reason |-> _generate_aspect_reason(aspect_name, sentiment, data),
              count |-> total,
              distribution |-> [positive |-> data.positive, negative |-> data.negative, neutral |-> data.neutral]]

_format_aspect_result(aspect_name, data) ==
    LET total == data.positive + data.negative + data.neutral
        sentiment == IF 2 * data.positive > total THEN "positive"
                     ELSE IF 2 * data.negative > total THEN "negative"
                     ELSE "neutral"
    IN  IF total = 0 THEN [sentiment |-> "neutral", reason |-> <<"N","o","t"," ","m","e","n","t","i","o","n","e","d">>, count |-> 0]
        ELSE [sentiment |-> sentiment,
              reason |-> _generate_aspect_reason(aspect_name, sentiment, data),
              count |-> total,
              distribution |-> [positive |-> data.positive, negative |-> data.negative, neutral |-> data.neutral]]

\* d[key] = value on a dict kept as the sequence of its items [key, v]
DictSet(d, key, value) ==
    IF \E i \in DOMAIN d : d[i].key = key
    THEN [i \in DOMAIN d |-> IF d[i].key = key THEN [key |-> key, v |-> value] ELSE d[i]]
    ELSE Append(d, [key |-> key, v |-> value])

\* the entry _analyze_aspects synthesizes when final_aspects is empty
GeneralEntry == [sentiment |-> "neutral", reason |-> <<"N","o"," ","s","p","e","c","i","f","i","c"," ","a","s","p","e","c","t","s"," ","i","d","e","n","t","i","f","i","e","d"," ","i","n"," ","r","e","v","i","e","w","s">>]

RECURSIVE FormatTallies(_, _, _)
\* "Convert to final format": the loop over aspect_data.items() from item i on
FormatTallies(data, i, final_aspects) ==
    IF i > Len(data) THEN final_aspects
    ELSE LET total == data[i].positive + data[i].negative + data[i].neutral
         IN  FormatTallies(data, i + 1,
                 IF total >= 1
                 THEN DictSet(final_aspects, Capitalize(data[i].name), _format_aspect_result(data[i].name, data[i]))
                 ELSE final_aspects)

\* mutant of FinalAspects: General is added whether or not aspects were found
FinalAspects_AlwaysGeneral(data) == DictSet(FormatTallies(data, 1, <<>>), <<"G","e","n","e","r","a","l">>, GeneralEntry)

\* the tail of _analyze_aspects: format the tallies, add General when none is left
FinalAspects(data) ==
    LET final_aspects == FormatTallies(data, 1, <<>>)
    IN  IF final_aspects = <<>> THEN DictSet(<<>>, <<"G","e","n","e","r","a","l">>, GeneralEntry) ELSE final_aspects

\* -------------------------------------------------- _generate_overall_feedback

RECURSIVE JoinWith(_, _)
\* sep.join(items)
JoinWith(sep, items) ==
    IF items = <<>> THEN <<>>
    ELSE IF Len(items) = 1 THEN items[1]
    ELSE items[1] \o sep \o JoinWith(sep, Tail(items))

\* f"{100 * n / total:.0f}": the quotient rounded to the nearest integer, halves to even
Pct0f(n, total) ==
    LET q == (100 * n) \div total
        r == (100 * n) % total
    IN  IntDigits(IF 2 * r < total THEN q
                  ELSE IF 2 * r > total THEN q + 1
                  ELSE IF q % 2 = 0 THEN q ELSE q + 1)

\* the number of reviews _get_sentence_sentiment classifies as sentiment
CountSentiment(revs, sentiment) == Len(SelectSeq(revs, LAMBDA r : _get_sentence_sentiment(r) = sentiment))

\* mutant of KeysWithSentiment: every aspect is listed, whatever its verdict
KeysWithSentiment_AnyVerdict(aspects, sentiment) == [i \in DOMAIN aspects |-> aspects[i].key]

\* [k for k, v in aspects.items() if v['sentiment'] == sentiment]
KeysWithSentiment(aspects, sentiment) ==
    LET sel == SelectSeq(aspects, LAMBDA e : e.v.sentiment = sentiment)
    IN  [i \in DOMAIN sel |-> sel[i].key]

_generate_overall_feedback(revs, aspects) ==
    LET pos == CountSentiment(revs, "positive")
        neg == CountSentiment(revs, "negative")
        total == IF Len(revs) = 0 THEN 1 ELSE Len(revs)
        positives == KeysWithSentiment(aspects, "positive")
        negatives == KeysWithSentiment(aspects, "negative")
        feedback ==
            IF 100 * pos > 60 * total
            THEN <<"H","i","g","h","l","y"," ","r","e","c","o","m","m","e","n","d","e","d"," ","p","r","o","d","u","c","t"," ","w","i","t","h"," ">> \o Pct0f(pos, total) \o <<"%"," ","p","o","s","i","t","i","v","e"," ","r","e","v","i","e","w","s","."," ">>
                 \o (IF positives # <<>> THEN <<"S","t","r","o","n","g"," ","p","o","i","n","t","s",":"," ">> \o JoinWith(<<","," ">>, Prefix(positives, 3)) \o <<"."," ">> ELSE <<>>)
                 \o (IF negatives # <<>> THEN <<"M","i","n","o","r"," ","c","o","n","c","e","r","n","s",":"," ">> \o JoinWith(<<","," ">>, Prefix(negatives, 2)) \o <<".">> ELSE <<>>)
            ELSE IF 100 * neg > 50 * total
            THEN <<"P","r","o","d","u","c","t"," ","h","a","s"," ","s","i","g","n","i","f","i","c","a","n","t"," ","i","s","s","u","e","s"," ","(">> \o Pct0f(neg, total) \o <<"%"," ","n","e","g","a","t","i","v","e"," ","r","e","v","i","e","w","s",")","."," ">>
                 \o (IF negatives # <<>> THEN <<"M","a","i","n"," ","p","r","o","b","l","e","m","s",":"," ">> \o JoinWith(<<","," ">>, Prefix(negatives, 3)) \o <<"."," ">> ELSE <<>>)
                 \o <<"C","o","n","s","i","d","e","r"," ","a","l","t","e","r","n","a","t","i","v","e","s"," ","c","a","r","e","f","u","l","l","y",".">>
            ELSE <<"M","i","x","e","d"," ","r","e","v","i","e","w","s"," ","(">> \o Pct0f(pos, total) \o <<"%"," ","p","o","s","i","t","i","v","e",","," ">> \o Pct0f(neg, total) \o <<"%"," ","n","e","g","a","t","i","v","e",")","."," ">>
                 \o (IF positives # <<>> THEN <<"S","t","r","e","n","g","t","h","s",":"," ">> \o JoinWith(<<","," ">>, Prefix(positives, 2)) \o <<"."," ">> ELSE <<>>)
                 \o (IF negatives # <<>> THEN <<"W","e","a","k","n","e","s","s","e","s",":"," ">> \o JoinWith(<<","," ">>, Prefix(negatives, 2)) \o <<".">> ELSE <<>>)
    IN  Strip(feedback)

\* ------------------------------------------------------------- _build_summary

\* sorted(items, key=..., reverse=True) with keys[i] the key of items[i]:
\* stable, so equal keys keep their order
SortDesc(items, keys) ==
    LET rank(i) == 1 + Cardinality({j \in DOMAIN items : keys[j] > keys[i] \/ (keys[j] = keys[i] /\ j < i)})
    IN  [p \in DOMAIN items |-> items[CHOOSE i \in DOMAIN items : rank(i) = p]]

\* data.get('count', 0)
CountOf(v) == IF "count" \in DOMAIN v THEN v.count ELSE 0

SentimentName(sentiment) ==
    CASE sentiment = "positive" -> <<"p","o","s","i","t","i","v","e">>
      [] sentiment = "negative" -> <<"n","e","g","a","t","i","v","e">>
      [] sentiment = "neutral" -> <<"n","e","u","t","r","a","l">>

\* the bullet character U+2022 that starts a summary line
BULLET == "bullet"

_build_summary(aspects) ==
    LET top == Prefix(SortDesc(aspects, [i \in DOMAIN aspects |-> CountOf(aspects[i].v)]), 5)
        lines == [i \in DOMAIN top |->
                    <<BULLET, " ">> \o top[i].key \o <<":"," ">> \o Capitalize(SentimentName(top[i].v.sentiment)) \o <<" ","-"," ">> \o top[i].v.reason]
    IN  IF lines # <<>> THEN JoinWith(<<"\n">>, lines) ELSE <<"L","i","m","i","t","e","d"," ","f","e","e","d","b","a","c","k"," ","a","v","a","i","l","a","b","l","e">>

\* ---------------------------------------------------------- _extract_key_themes

theme_patterns == <<
    <<<<"V","a","l","u","e"," ","f","o","r"," ","M","o","n","e","y">>, <<<<"v","a","l","u","e">>, <<"p","r","i","c","e">>, <<"w","o","r","t","h">>, <<"m","o","n","e","y">>, <<"v","f","m">>>> >>,
    <<<<"B","u","i","l","d"," ","Q","u","a","l","i","t","y">>, <<<<"q","u","a","l","i","t","y">>, <<"b","u","i","l","d">>, <<"p","r","e","m","i","u","m">>, <<"m","a","t","e","r","i","a","l">>, <<"c","o","n","s","t","r","u","c","t","i","o","n">>>> >>,
    <<<<"U","s","e","r"," ","E","x","p","e","r","i","e","n","c","e">>, <<<<"e","x","p","e","r","i","e","n","c","e">>, <<"e","a","s","y">>, <<"u","s","e","r">>, <<"i","n","t","e","r","f","a","c","e">>, <<"u","s","a","b","i","l","i","t","y">>>> >>,
    <<<<"R","e","l","i","a","b","i","l","i","t","y">>, <<<<"r","e","l","i","a","b","l","e">>, <<"d","u","r","a","b","l","e">>, <<"l","a","s","t","i","n","g">>, <<"t","r","u","s","t">>, <<"d","e","p","e","n","d","a","b","l","e">>>> >>,
    <<<<"A","f","t","e","r"," ","S","a","l","e","s">>, <<<<"s","e","r","v","i","c","e">>, <<"s","u","p","p","o","r","t">>, <<"w","a","r","r","a","n","t","y">>, <<"r","e","p","l","a","c","e","m","e","n","t">>, <<"c","u","s","t","o","m","e","r">>>> >> >>

\* mutant of _analyze_theme_sentiment: a tie counts as positive
_analyze_theme_sentiment_TieIsPositive(mentions) ==
    LET pos == CountSentiment(mentions, "positive")
        neg == CountSentiment(mentions, "negative")
        total == Len(mentions)
    IN  IF pos >= neg
        THEN [sentiment |-> "positive",
              reason |-> <<"P","o","s","i","t","i","v","e"," ","f","e","e","d","b","a","c","k"," ","i","n"," ">> \o IntDigits(pos) \o <<"/">> \o IntDigits(total) \o <<" ","r","e","v","i","e","w","s">>]
        ELSE [sentiment |-> "negative",
              reason |-> <<"C","o","n","c","e","r","n","s"," ","r","a","i","s","e","d"," ","i","n"," ">> \o IntDigits(neg) \o <<"/">> \o IntDigits(total) \o <<" ","r","e","v","i","e","w","s">>]

_analyze_theme_sentiment(mentions) ==
    LET pos == CountSentiment(mentions, "positive")
        neg == CountSentiment(mentions, "negative")
        total == Len(mentions)
    IN  IF pos > neg
        THEN [sentiment |-> "positive",
              reason |-> <<"P","o","s","i","t","i","v","e"," ","f","e","e","d","b","a","c","k"," ","i","n"," ">> \o IntDigits(pos) \o <<"/">> \o IntDigits(total) \o <<" ","r","e","v","i","e","w","s">>]
        ELSE IF neg > pos
        THEN [sentiment |-> "negative",
              reason |-> <<"C","o","n","c","e","r","n","s"," ","r","a","i","s","e","d"," ","i","n"," ">> \o IntDigits(neg) \o <<"/">> \o IntDigits(total) \o <<" ","r","e","v","i","e","w","s">>]
        ELSE [sentiment |-> "neutral",
              reason |-> <<"M","i","x","e","d"," ","o","p","i","n","i","o","n","s"," ","a","c","r","o","s","s"," ">> \o IntDigits(total) \o <<" ","r","e","v","i","e","w","s">>]

\* [r for r in reviews if any(k in r.lower() for k in keywords)]
ThemeMentions(revs, keywords) == SelectSeq(revs, LAMBDA r : AnyIn(keywords, Lower(r)))

RECURSIVE ThemeLoop(_, _)
\* the loop over theme_patterns.items() from entry i on
ThemeLoop(revs, i) ==
    IF i > Len(theme_patterns) THEN <<>>
    ELSE LET mentions == ThemeMentions(revs, theme_patterns[i][2])
             sentiment == _analyze_theme_sentiment(mentions)
         IN  (IF Len(mentions) >= 1
              THEN << [sentiment |-> sentiment.sentiment, reason |-> sentiment.reason,
                       theme |-> theme_patterns[i][1], mention_count |-> Len(mentions)] >>
              ELSE <<>>) \o ThemeLoop(revs, i + 1)

\* mutant of _extract_key_themes: the themes stay in the order of the table
_extract_key_themes_Unsorted(revs) == Prefix(ThemeLoop(revs, 1), 5)

_extract_key_themes(revs) ==
    LET themes == ThemeLoop(revs, 1)
    IN  Prefix(SortDesc(themes, [i \in DOMAIN themes |-> themes[i].mention_count]), 5)

\* ------------------------------------------- _build_competitor_recommendations

\* str.replace('_', ' ')
ReplaceUnderscore(s) == [i \in DOMAIN s |-> IF s[i] = "_" THEN " " ELSE s[i]]

IsLetter(c) == c \in UpperSet \cup LowerSet

\* str.title(): a letter is upper-cased after a non-letter, lower-cased after a letter
Title(s) == [i \in DOMAIN s |-> IF i = 1 \/ ~IsLetter(s[i - 1]) THEN UpperChar(s[i]) ELSE LowerChar(s[i])]

\* mutant of _generate_competitor_reason: every clause that applies is added
_generate_competitor_reason_EveryClause(brand, cat, weak_aspects, index) ==
    LET base_reason ==
            CASE index = 0 -> <<"A","l","t","e","r","n","a","t","i","v","e"," ">> \o cat \o <<" ","o","p","t","i","o","n"," ","w","i","t","h"," ","e","s","t","a","b","l","i","s","h","e","d"," ","b","r","a","n","d"," ","r","e","p","u","t","a","t","i","o","n">>
              [] index = 1 -> <<"K","n","o","w","n"," ","f","o","r"," ","r","e","l","i","a","b","i","l","i","t","y"," ","i","n"," ","t","h","e"," ">> \o cat \o <<" ","s","e","g","m","e","n","t">>
              [] index = 2 -> <<"P","o","p","u","l","a","r"," ","c","h","o","i","c","e"," ","o","f","f","e","r","i","n","g"," ","c","o","m","p","e","t","i","t","i","v","e"," ","f","e","a","t","u","r","e","s">>
              [] index = 3 -> <<"B","u","d","g","e","t","-","f","r","i","e","n","d","l","y"," ","a","l","t","e","r","n","a","t","i","v","e"," ","i","n"," ">> \o cat \o <<" ","c","a","t","e","g","o","r","y">>
              [] OTHER -> <<"A","l","t","e","r","n","a","t","i","v","e"," ">> \o cat \o <<" ","o","p","t","i","o","n">>
        weak == Range(weak_aspects)
    IN  base_reason
        \o (IF <<"b","a","t","t","e","r","y">> \in weak THEN <<" ","-"," ","k","n","o","w","n"," ","f","o","r"," ","b","e","t","t","e","r"," ","b","a","t","t","e","r","y"," ","p","e","r","f","o","r","m","a","n","c","e">> ELSE <<>>)
        \o (IF <<"c","a","m","e","r","a">> \in weak THEN <<" ","-"," ","s","t","r","o","n","g"," ","c","a","m","e","r","a"," ","c","a","p","a","b","i","l","i","t","i","e","s">> ELSE <<>>)
        \o (IF <<"p","e","r","f","o","r","m","a","n","c","e">> \in weak THEN <<" ","-"," ","s","u","p","e","r","i","o","r"," ","p","r","o","c","e","s","s","i","n","g"," ","p","o","w","e","r">> ELSE <<>>)

_generate_competitor_reason(brand, cat, weak_aspects, index) ==
    LET base_reason ==
            CASE index = 0 -> <<"A","l","t","e","r","n","a","t","i","v","e"," ">> \o cat \o <<" ","o","p","t","i","o","n"," ","w","i","t","h"," ","e","s","t","a","b","l","i","s","h","e","d"," ","b","r","a","n","d"," ","r","e","p","u","t","a","t","i","o","n">>
              [] index = 1 -> <<"K","n","o","w","n"," ","f","o","r"," ","r","e","l","i","a","b","i","l","i","t","y"," ","i","n"," ","t","h","e"," ">> \o cat \o <<" ","s","e","g","m","e","n","t">>
              [] index = 2 -> <<"P","o","p","u","l","a","r"," ","c","h","o","i","c","e"," ","o","f","f","e","r","i","n","g"," ","c","o","m","p","e","t","i","t","i","v","e"," ","f","e","a","t","u","r","e","s">>
              [] index = 3 -> <<"B","u","d","g","e","t","-","f","r","i","e","n","d","l","y"," ","a","l","t","e","r","n","a","t","i","v","e"," ","i","n"," ">> \o cat \o <<" ","c","a","t","e","g","o","r","y">>
              [] OTHER -> <<"A","l","t","e","r","n","a","t","i","v","e"," ">> \o cat \o <<" ","o","p","t","i","o","n">>
        weak == Range(weak_aspects)
    IN  IF <<"b","a","t","t","e","r","y">> \in weak THEN base_reason \o <<" ","-"," ","k","n","o","w","n"," ","f","o","r"," ","b","e","t","t","e","r"," ","b","a","t","t","e","r","y"," ","p","e","r","f","o","r","m","a","n","c","e">>
        ELSE IF <<"c","a","m","e","r","a">> \in weak THEN base_reason \o <<" ","-"," ","s","t","r","o","n","g"," ","c","a","m","e","r","a"," ","c","a","p","a","b","i","l","i","t","i","e","s">>
        ELSE IF <<"p","e","r","f","o","r","m","a","n","c","e">> \in weak THEN base_reason \o <<" ","-"," ","s","u","p","e","r","i","o","r"," ","p","r","o","c","e","s","s","i","n","g"," ","p","o","w","e","r">>
        ELSE base_reason

_build_competitor_recommendations(name, cat, comps, aspects) ==
    LET negatives == KeysWithSentiment(aspects, "negative")
        weak_aspects == [i \in DOMAIN negatives |-> Lower(negatives[i])]
        first4 == Prefix(comps, 4)
    IN  [i \in DOMAIN first4 |->
            [category |-> cat,
             name |-> first4[i] \o <<" ">> \o Title(ReplaceUnderscore(cat)) \o <<" ","S","e","r","i","e","s">>,
             reason |-> _generate_competitor_reason(first4[i], cat, weak_aspects, i - 1)]]

\* -------------------------------------------------------- _calculate_confidence

\* mutant of _calculate_confidence: the General entry counts as an aspect
_calculate_confidence_CountsGeneral(revs, aspects) ==
    LET review_count == Len(revs)
        aspect_count == Len(aspects)
    IN  IF review_count >= 20 /\ aspect_count >= 5 THEN "High"
        ELSE IF review_count >= 10 /\ aspect_count >= 3 THEN "Medium"
        ELSE "Low"

_calculate_confidence(revs, aspects) ==
    LET review_count == Len(revs)
        aspect_count == Cardinality({i \in DOMAIN aspects : aspects[i].key # <<"G","e","n","e","r","a","l">>})
    IN  IF review_count >= 20 /\ aspect_count >= 5 THEN "High"
        ELSE IF review_count >= 10 /\ aspect_count >= 3 THEN "Medium"
        ELSE "Low"

\* ------------------------------------------------------------- _empty_analysis

NO_REVIEWS_MESSAGE == <<"N","o"," ","r","e","v","i","e","w","s"," ","a","v","a","i","l","a","b","l","e"," ","f","o","r"," ","a","n","a","l","y","s","i","s">>

\* mutant of _empty_analysis: the category is not computed from the name
_empty_analysis_NoCategory(name) ==
    [product_name |-> name,
     category |-> <<"g","e","n","e","r","a","l">>,
     aspects |-> <<>>,
     review_count |-> 0,
     overall_feedback |-> NO_REVIEWS_MESSAGE,
     summary |-> <<"N","o"," ","c","u","s","t","o","m","e","r"," ","f","e","e","d","b","a","c","k"," ","f","o","u","n","d">>,
     key_themes |-> <<>>,
     recommended_products |-> <<>>,
     analysis_confidence |-> "None"]

_empty_analysis(name) ==
    [product_name |-> name,
     category |-> detect_product_category(name),
     aspects |-> <<>>,
     review_count |-> 0,
     overall_feedback |-> NO_REVIEWS_MESSAGE,
     summary |-> <<"N","o"," ","c","u","s","t","o","m","e","r"," ","f","e","e","d","b","a","c","k"," ","f","o","u","n","d">>,
     key_themes |-> <<>>,
     recommended_products |-> <<>>,
     analysis_confidence |-> "None"]

\* --------------------------------------------------------------------- inputs

\* product names handed to analyze_reviews: a television brand, a mobile
\* brand, a name with neither brand nor category keyword
ProductNames == {<<"S","o","n","y"," ","T","V">>, <<"S","a","m","s","u","n","g"," ","G","a","l","a","x","y">>, <<"U","n","k","n","o","w","n"," ","G","a","d","g","e","t">>}

\* review entries handed to analyze_reviews: plain strings (one blank),
\* records with the text under one or more of the fields, records with no
\* text or a non-string text, and an entry that is neither string nor record
ReviewEntries == {
    PyStr(<<"g","r","e","a","t"," ","c","a","m","e","r","a">>),
    PyStr(<<"g","o","o","d">>),
    PyStr(<<"B","a","d"," ","c","a","m","e","r","a">>),
    PyStr(<<"g","o","o","d"," ","r","e","m","o","t","e">>),
    PyStr(<<" "," ">>),
    PyDict("review_text" :> PyStr(<<>>) @@ "text" :> PyStr(<<"g","o","o","d"," ","v","a","l","u","e">>)),
    PyDict("review" :> PyStr(<<"g","r","e","a","t"," ","c","a","m","e","r","a">>) @@ "content" :> PyStr(<<"B","a","d"," ","c","a","m","e","r","a">>)),
    PyDict("review_text" :> PyNone @@ "body" :> PyStr(<<" ","g","o","o","d"," ","q","u","a","l","i","t","i","e","s"," ">>)),
    PyDict("text" :> PyInt(42)),
    PyDict(<<>>),
    PyNone}

\* the review lists of at most n entries
ReviewLists(n) == UNION {[1..k -> ReviewEntries] : k \in 0..n}

\* the two threads that call analyze_reviews on one analyzer
Threads == {1, 2}

\* a thread that is not in a call
IdleThread ==
    [pc |-> "idle", product_name |-> <<>>, reviews |-> <<>>, category |-> <<>>, competitors |-> <<>>,
     clean_reviews |-> <<>>, idx |-> 0, result |-> <<>>]

\* the calls the two threads make: two products, review lists with one and
\* with two usable reviews, with an unusable entry, and the empty list
ThreadCalls == {
    [product_name |-> <<"S","a","m","s","u","n","g"," ","G","a","l","a","x","y">>, reviews |-> <<PyStr(<<"g","r","e","a","t"," ","c","a","m","e","r","a">>)>>],
    [product_name |-> <<"S","a","m","s","u","n","g"," ","G","a","l","a","x","y">>, reviews |-> <<PyStr(<<"B","a","d"," ","c","a","m","e","r","a">>), PyStr(<<"g","o","o","d">>)>>],
    [product_name |-> <<"S","o","n","y"," ","T","V">>, reviews |-> <<PyStr(<<"B","a","d"," ","c","a","m","e","r","a">>), PyStr(<<"g","r","e","a","t"," ","c","a","m","e","r","a">>)>>],
    [product_name |-> <<"S","o","n","y"," ","T","V">>, reviews |-> <<PyDict(<<>>), PyStr(<<"g","o","o","d">>)>>],
    [product_name |-> <<"S","o","n","y"," ","T","V">>, reviews |-> <<>>]}

\* a scraper that is not in a call
IdleScraper ==
    [pc |-> "idle", product_name |-> "", reviews |-> <<>>, product_url |-> <<>>, max_reviews |-> 0,
     product_id |-> <<>>, page |-> 0, consecutive_failures |-> 0, http_requests |-> 0, ret |-> <<>>]

\* no ReviewCache has been constructed yet
\* the tables of the module (BRAND_TO_CATEGORY, COMPETITOR_MAP) and of the
\* analyzer (self.aspect_keywords, self.category_aspects, self.positive_words,
\* self.negative_words) as the import and __init__ build them; the code
\* assigns to none of them after that, and the functions above read them as
\* built
ConstructedTables ==
    [BRAND_TO_CATEGORY |-> BRAND_TO_CATEGORY, COMPETITOR_MAP |-> COMPETITOR_MAP,
     aspect_keywords |-> aspect_keywords, category_aspects |-> category_aspects,
     positive_words |-> positive_words, negative_words |-> negative_words]

NoCache ==
    [ret |-> <<>>, fn |-> "none", identifier |-> <<>>, source |-> <<>>, use_db |-> FALSE, now |-> 0,
     memory_cache |-> <<>>, db |-> <<>>, stored |-> <<>>]

\* ----------------------------------------------------------------- the module

Init ==
    /\ env \in [nltk : {"absent", "nodata", "ok"}, textblob : BOOLEAN]
    /\ loaded = "no"
    /\ NLTK_AVAILABLE = FALSE
    /\ pc = "idle"
    /\ product_name = <<>>
    /\ reviews = <<>>
    /\ category = <<>>
    /\ competitors = <<>>
    /\ clean_reviews = <<>>
    /\ idx = 0
    /\ aspect_data = <<>>
    /\ confidence_calls = <<>>
    /\ result = <<>>
    /\ call = [fn |-> "none"]
    /\ threads = [t \in Threads |-> IdleThread]
    /\ frames = [t \in Threads |-> <<>>]
    /\ scraper = IdleScraper
    /\ cache = NoCache
    /\ tables = <<>>

\* import of the module: `from textblob import TextBlob` is unguarded and
\* raises when the package is missing; the NLTK import is guarded and only
\* clears NLTK_AVAILABLE
ImportModule ==
    /\ loaded = "no"
    /\ loaded' = IF env.textblob THEN "ok" ELSE "error"
    /\ NLTK_AVAILABLE' = (env.textblob /\ env.nltk # "absent")
    /\ tables' = IF env.textblob THEN ConstructedTables ELSE tables
    /\ UNCHANGED <<env, pc, product_name, reviews, category, competitors, clean_reviews, idx,
                   aspect_data, confidence_calls, result, call, threads, frames, scraper, cache>>

\* analyze_reviews(name, revs) up to the call of _analyze_aspects, or the
\* whole call when `not reviews`
analyze_reviews(name, revs) ==
    /\ loaded = "ok"
    /\ pc = "idle"
    /\ product_name' = name
    /\ reviews' = revs
    /\ idx' = 1
    /\ aspect_data' = <<>>
    /\ confidence_calls' = <<>>
    /\ IF revs = <<>>
       THEN /\ result' = _empty_analysis(name)
            /\ category' = <<>>
            /\ competitors' = <<>>
            /\ clean_reviews' = <<>>
            /\ pc' = "done"
       ELSE LET rec_data == recommend_competitors(name)
            IN  /\ result' = <<>>
                /\ category' = rec_data.category
                /\ competitors' = rec_data.competitors
                /\ clean_reviews' = _clean_reviews(revs)
                /\ pc' = "aspects"
    /\ UNCHANGED <<env, loaded, NLTK_AVAILABLE, call, threads, frames, scraper, cache, tables>>

\* what analyze_reviews returns once the review loop has left the tallies
\* data: the aspects map made of them, the feedback, the themes, the
\* recommendations, the summary and the confidence
StructuredResponse(name, cat, comps, clean, data) ==
    LET aspect_sentiments == FinalAspects(data)
    IN  [product_name |-> name,
         category |-> cat,
         aspects |-> aspect_sentiments,
         review_count |-> Len(clean),
         overall_feedback |-> _generate_overall_feedback(clean, aspect_sentiments),
         summary |-> _build_summary(aspect_sentiments),
         key_themes |-> _extract_key_themes(clean),
         recommended_products |-> _build_competitor_recommendations(name, cat, comps, aspect_sentiments),
         analysis_confidence |-> _calculate_confidence(clean, aspect_sentiments)]

\* a caller with a loaded analyzer calls analyze_reviews with some product
\* name and some review list
Call ==
    /\ loaded = "ok"
    /\ pc = "idle"
    /\ \E name \in ProductNames, revs \in ReviewLists(MaxReviews) : analyze_reviews(name, revs)

\* mutant of AnalyzeAspectsReview: the keywords of an aspect matched are
\* taken out of the registry
AnalyzeAspectsReview_ConsumesKeywords ==
    /\ pc = "aspects"
    /\ idx <= Len(clean_reviews)
    /\ aspect_data' = AnalyzeReviewStep(aspect_data, clean_reviews[idx], category)
    /\ idx' = idx + 1
    /\ tables' = [tables EXCEPT !.aspect_keywords =
                      [i \in DOMAIN @ |->
                          IF \E k \in DOMAIN aspect_data' : aspect_data'[k].name = @[i][1]
                          THEN <<@[i][1], <<>>>> ELSE @[i]]]
    /\ UNCHANGED <<env, loaded, NLTK_AVAILABLE, pc, product_name, reviews, category, competitors,
                   clean_reviews, confidence_calls, result, call, threads, frames, scraper, cache>>

\* one iteration of `for idx, review in enumerate(reviews)` in _analyze_aspects
AnalyzeAspectsReview ==
    /\ pc = "aspects"
    /\ idx <= Len(clean_reviews)
    /\ aspect_data' = AnalyzeReviewStep(aspect_data, clean_reviews[idx], category)
    /\ idx' = idx + 1
    /\ UNCHANGED <<env, loaded, NLTK_AVAILABLE, pc, product_name, reviews, category, competitors,
                   clean_reviews, confidence_calls, result, call, threads, frames, scraper, cache, tables>>

\* the rest of the call once the review loop is over: the tallies become the
\* aspects map, then feedback, themes, recommendations, summary and confidence
AnalyzeReviewsReturn ==
    /\ pc = "aspects"
    /\ idx > Len(clean_reviews)
    /\ result' = StructuredResponse(product_name, category, competitors, clean_reviews, aspect_data)
    /\ confidence_calls' = Append(confidence_calls, Len(clean_reviews))
    /\ pc' = "done"
    /\ UNCHANGED <<env, loaded, NLTK_AVAILABLE, product_name, reviews, category, competitors,
                   clean_reviews, idx, aspect_data, call, threads, frames, scraper, cache, tables>>

\* the caller has taken the result; the locals of the finished call are gone
\* and the analyzer is ready for the next call
NextCall ==
    /\ pc = "done"
    /\ pc' = "idle"
    /\ product_name' = <<>>
    /\ reviews' = <<>>
    /\ category' = <<>>
    /\ competitors' = <<>>
    /\ clean_reviews' = <<>>
    /\ idx' = 0
    /\ aspect_data' = <<>>
    /\ confidence_calls' = <<>>
    /\ result' = <<>>
    /\ UNCHANGED <<env, loaded, NLTK_AVAILABLE, call, threads, frames, scraper, cache, tables>>

Next ==
    \/ ImportModule
    \/ Call
    \/ AnalyzeAspectsReview
    \/ AnalyzeReviewsReturn
    \/ NextCall

Spec == Init /\ [][Next]_vars

\* ---------------------------------------------- FlipkartScraper._make_request

\* self.max_retries
max_retries == 3

\* what session.get does at one attempt: a response with a status code
\* (200, 404, 403, another one), requests.Timeout, or another exception
ServerAnswers == {"200", "404", "403", "500", "Timeout", "Exception"}

\* mutant of _make_request: a 403 is taken for a failure to retry
_make_request_RetriesForbidden(answers) ==
    LET RECURSIVE Try(_)
        Try(attempt) ==
            IF attempt > max_retries THEN [ok |-> FALSE, attempts |-> max_retries]
            ELSE IF answers[attempt] = "200" THEN [ok |-> TRUE, attempts |-> attempt]
            ELSE IF answers[attempt] = "404" THEN [ok |-> FALSE, attempts |-> attempt]
            ELSE Try(attempt + 1)
    IN  Try(1)

\* self._make_request(url), answers[attempt] being what session.get does at
\* that attempt: whether a response is returned (ok) or None, and the
\* number of calls of session.get
_make_request(answers) ==
    LET RECURSIVE Try(_)
        Try(attempt) ==
            IF attempt > max_retries THEN [ok |-> FALSE, attempts |-> max_retries]
            ELSE IF answers[attempt] = "200" THEN [ok |-> TRUE, attempts |-> attempt]
            ELSE IF answers[attempt] \in {"404", "403"} THEN [ok |-> FALSE, attempts |-> attempt]
            ELSE Try(attempt + 1)
    IN  Try(1)

\* ------------------------------------------------- direct calls of functions

\* the module has been imported (TextBlob is there; NLTK there or not) and an
\* analyzer constructed; no call of analyze_reviews is under way
UnitInit ==
    /\ env \in [nltk : {"absent", "nodata", "ok"}, textblob : {TRUE}]
    /\ loaded = "ok"
    /\ NLTK_AVAILABLE = (env.nltk # "absent")
    /\ pc = "idle"
    /\ product_name = <<>>
    /\ reviews = <<>>
    /\ category = <<>>
    /\ competitors = <<>>
    /\ clean_reviews = <<>>
    /\ idx = 0
    /\ aspect_data = <<>>
    /\ confidence_calls = <<>>
    /\ result = <<>>
    /\ call = [fn |-> "none"]
    /\ threads = [t \in Threads |-> IdleThread]
    /\ frames = [t \in Threads |-> <<>>]
    /\ scraper = IdleScraper
    /\ cache = NoCache
    /\ tables = ConstructedTables

\* what a direct call returns to its caller: nothing of the analyzer changes
Returns(fn, args, ret) ==
    /\ call.fn = "none"
    /\ call' = [ret |-> ret, fn |-> fn, args |-> args]
    /\ UNCHANGED <<env, loaded, NLTK_AVAILABLE, pc, product_name, reviews, category, competitors,
                   clean_reviews, idx, aspect_data, confidence_calls, result, threads, frames, scraper, cache, tables>>

\* the tallies handed to _format_aspect_result: every counter up to MaxTally
Tallies(name) ==
    {[name |-> name, positive |-> p, negative |-> n, neutral |-> u, mentions |-> <<>>] :
        p \in 0..MaxTally, n \in 0..MaxTally, u \in 0..MaxTally}

\* self._format_aspect_result(aspect, data)
FormatAspectResultCall ==
    \E aspect \in {<<"c","a","m","e","r","a">>, <<"b","a","t","t","e","r","y">>} : \E data \in Tallies(aspect) :
        Returns("_format_aspect_result", <<aspect, data>>, _format_aspect_result(aspect, data))

\* a list of n reviews
ReviewsOfLen(n) == [i \in 1..n |-> <<"g","o","o","d">>]

\* an aspects map of k detected aspects, with or without a General entry
AspectsOfSize(k, general) ==
    [i \in 1..k |-> [key |-> Capitalize(aspect_keywords[i][1]),
                     v |-> [sentiment |-> "neutral", reason |-> <<"M","i","x","e","d"," ","o","p","i","n","i","o","n","s">>, count |-> 1]]]
    \o (IF general THEN <<[key |-> <<"G","e","n","e","r","a","l">>, v |-> GeneralEntry]>> ELSE <<>>)

\* self._calculate_confidence(reviews, aspects)
CalculateConfidenceCall ==
    \E n \in 0..MaxConfidenceReviews, k \in 0..MaxConfidenceAspects, general \in BOOLEAN :
        Returns("_calculate_confidence", <<ReviewsOfLen(n), AspectsOfSize(k, general)>>,
                _calculate_confidence(ReviewsOfLen(n), AspectsOfSize(k, general)))

\* the polarities TextBlob may answer, in hundredths: the ends of [-1, 1],
\* zero, and the values on and next to the thresholds of the decision
PolarityValues == {0 - 100, 0 - 50, 0 - 21, 0 - 20, 0 - 1, 0, 1, 20, 21, 50, 100}

\* texts with more positive than negative words, more negative than
\* positive, as many of each, and none of either
SentimentTexts == {<<"g","o","o","d">>, <<"B","a","d">>, <<"g","o","o","d"," ","b","u","t"," ","b","a","d">>, <<"o","k","a","y">>, <<"g","r","e","a","t",","," ","g","o","o","d",","," ","b","a","d">>, <<"n","o","t"," ","b","a","d",","," ","p","o","o","r">>}

\* self._get_sentence_sentiment(text), TextBlob answering polarity/100
GetSentenceSentimentCall ==
    \E text \in SentimentTexts, polarity \in PolarityValues :
        Returns("_get_sentence_sentiment", <<text, polarity>>, SentenceSentimentWith(text, polarity))

\* product names handed to detect_product_category and recommend_competitors:
\* the empty name, names with one brand, with a brand and a keyword of
\* another category, with two brands, with a brand inside a word, with
\* keywords only (of one list, of two lists), and with neither
DetectNames == {
    <<>>, <<"U","n","k","n","o","w","n"," ","G","a","d","g","e","t">>, <<"S","o","n","y"," ","p","h","o","n","e">>, <<"S","o","n","y"," ","S","a","m","s","u","n","g"," ","T","V">>, <<"R","a","c","e","r"," ","s","h","o","e">>, <<"A","p","p","l","e"," ","M","a","c","B","o","o","k">>,
    <<"R","e","d","m","i"," ","5","G">>, <<"Q","L","E","D"," ","d","i","s","p","l","a","y">>, <<"S","m","a","r","t","p","h","o","n","e"," ","c","a","s","e">>, <<"G","a","m","i","n","g"," ","L","a","p","t","o","p">>, <<"N","o","t","e","b","o","o","k"," ","p","h","o","n","e">>,
    <<"B","l","u","e","t","o","o","t","h"," ","S","p","e","a","k","e","r">>, <<"R","u","n","n","i","n","g"," ","S","h","o","e","s">>, <<"p","a","n","t"," ","b","o","o","t">>, <<"C","o","t","t","o","n"," ","S","h","i","r","t">>, <<"W","a","s","h","i","n","g"," ","M","a","c","h","i","n","e">>,
    <<"S","m","a","r","t"," ","T","V"," ","5","G">>, <<"M","a","c","B","o","o","k"," ","A","i","r">>}

\* detect_product_category(product_name)
DetectProductCategoryCall ==
    \E name \in DetectNames :
        Returns("detect_product_category", <<name>>, detect_product_category(name))

\* the cleaned review lists handed to _extract_key_themes
ThemeReviews == {<<"g","o","o","d"," ","v","a","l","u","e">>, <<"B","a","d"," ","b","u","i","l","d"," ","q","u","a","l","i","t","y">>, <<"q","u","a","l","i","t","y"," ","w","o","r","t","h"," ","t","h","e"," ","p","r","i","c","e">>, <<"E","a","s","y"," ","t","o"," ","u","s","e">>, <<"g","r","e","a","t"," ","c","a","m","e","r","a">>}

ThemeReviewLists(n) == UNION {[1..k -> ThemeReviews] : k \in 0..n}

\* self._extract_key_themes(reviews)
ExtractKeyThemesCall ==
    \E revs \in ThemeReviewLists(MaxThemeReviews) :
        Returns("_extract_key_themes", <<revs>>, _extract_key_themes(revs))

\* an aspects map whose entries, for the aspects named, have the given verdicts
AspectsWith(names, sentiments) ==
    [i \in DOMAIN sentiments |->
        [key |-> Capitalize(names[i]),
         v |-> [sentiment |-> sentiments[i], reason |-> <<"M","i","x","e","d"," ","o","p","i","n","i","o","n","s">>, count |-> 1]]]

\* self._generate_overall_feedback(reviews, aspects), on a cleaned review
\* list of p positive, n negative and u neutral reviews (empty, of two
\* reviews, or the longest)
GenerateOverallFeedbackCall ==
    /\ call.fn = "none"
    /\ \E p, n, u \in 0..MaxFeedbackReviews :
          /\ p + n + u \in {0, 2, MaxFeedbackReviews}
          /\ \E sentiments \in UNION {[1..k -> {"positive", "negative", "neutral"}] : k \in 0..MaxFeedbackAspects} :
                LET revs == [i \in 1..p |-> <<"g","o","o","d">>] \o [i \in 1..n |-> <<"B","a","d">>] \o [i \in 1..u |-> <<"o","k","a","y">>]
                    aspects == AspectsWith([i \in DOMAIN aspect_keywords |-> aspect_keywords[i][1]], sentiments)
                IN  Returns("_generate_overall_feedback", <<revs, aspects>>,
                            _generate_overall_feedback(revs, aspects))

\* self._build_competitor_recommendations(product_name, category, competitors, aspects)
BuildCompetitorRecommendationsCall ==
    /\ call.fn = "none"
    /\ \E cat \in {<<"m","o","b","i","l","e">>, <<"h","o","m","e","_","a","p","p","l","i","a","n","c","e">>}, n \in 0..MaxCompetitors :
          \E sentiments \in UNION {[1..k -> {"positive", "negative", "neutral"}] : k \in {0, 3}} :
              LET comps == Prefix(CompetitorsOf(cat), n)
                  aspects == AspectsWith(<<<<"b","a","t","t","e","r","y">>, <<"c","a","m","e","r","a">>, <<"p","e","r","f","o","r","m","a","n","c","e">>>>, sentiments)
              IN  Returns("_build_competitor_recommendations", <<<<"U","n","k","n","o","w","n"," ","G","a","d","g","e","t">>, cat, comps, aspects>>,
                          _build_competitor_recommendations(<<"U","n","k","n","o","w","n"," ","G","a","d","g","e","t">>, cat, comps, aspects))

\* FlipkartScraper._make_request(url)
MakeRequestCall ==
    /\ call.fn = "none"
    /\ \E answers \in [1..max_retries -> ServerAnswers] :
          Returns("_make_request", <<answers>>, _make_request(answers))

\* the caller has taken what the direct call returned
UnitReturn ==
    /\ call.fn # "none"
    /\ call' = [fn |-> "none"]
    /\ UNCHANGED <<env, loaded, NLTK_AVAILABLE, pc, product_name, reviews, category, competitors,
                   clean_reviews, idx, aspect_data, confidence_calls, result, threads, frames, scraper, cache, tables>>

UnitNext ==
    \/ FormatAspectResultCall
    \/ CalculateConfidenceCall
    \/ GetSentenceSentimentCall
    \/ DetectProductCategoryCall
    \/ ExtractKeyThemesCall
    \/ GenerateOverallFeedbackCall
    \/ BuildCompetitorRecommendationsCall
    \/ MakeRequestCall
    \/ UnitReturn

UnitSpec == UnitInit /\ [][UnitNext]_vars

\* ------------------------------------------- two threads on one analyzer

\* the module has been imported and one analyzer constructed; both threads
\* are about to call it
ConcInit == UnitInit

\* mutant of FrameOf: aspect_data is kept on the analyzer, one for all calls
FrameOf_OnSelf(t) == 1

\* the frame that holds the locals of the call of thread t: aspect_data is
\* a local of _analyze_aspects, created anew by every call
FrameOf(t) == t

\* thread t calls analyze_reviews: the whole call when `not reviews`, else
\* up to the review loop of _analyze_aspects
ThreadCall(t) ==
    /\ threads[t].pc = "idle"
    /\ \E c \in ThreadCalls :
          IF c.reviews = <<>>
          THEN /\ threads' = [threads EXCEPT ![t] =
                     [IdleThread EXCEPT !.pc = "done", !.product_name = c.product_name,
                                        !.reviews = c.reviews, !.result = _empty_analysis(c.product_name)]]
               /\ UNCHANGED frames
          ELSE LET rec_data == recommend_competitors(c.product_name)
               IN  /\ threads' = [threads EXCEPT ![t] =
                         [pc |-> "aspects", product_name |-> c.product_name, reviews |-> c.reviews,
                          category |-> rec_data.category, competitors |-> rec_data.competitors,
                          clean_reviews |-> _clean_reviews(c.reviews), idx |-> 1, result |-> <<>>]]
                   /\ frames' = [frames EXCEPT ![FrameOf(t)] = <<>>]
    /\ UNCHANGED <<env, loaded, NLTK_AVAILABLE, pc, product_name, reviews, category, competitors,
                   clean_reviews, idx, aspect_data, confidence_calls, result, call, scraper, cache, tables>>

\* thread t runs one iteration of the review loop of _analyze_aspects
ThreadAnalyzeAspectsReview(t) ==
    /\ threads[t].pc = "aspects"
    /\ threads[t].idx <= Len(threads[t].clean_reviews)
    /\ frames' = [frames EXCEPT ![FrameOf(t)] =
                     AnalyzeReviewStep(@, threads[t].clean_reviews[threads[t].idx], threads[t].category)]
    /\ threads' = [threads EXCEPT ![t].idx = @ + 1]
    /\ UNCHANGED <<env, loaded, NLTK_AVAILABLE, pc, product_name, reviews, category, competitors,
                   clean_reviews, idx, aspect_data, confidence_calls, result, call, scraper, cache, tables>>

\* thread t runs the rest of its call and returns
ThreadReturn(t) ==
    /\ threads[t].pc = "aspects"
    /\ threads[t].idx > Len(threads[t].clean_reviews)
    /\ threads' = [threads EXCEPT ![t].pc = "done",
                                  ![t].result = StructuredResponse(threads[t].product_name, threads[t].category,
                                                                   threads[t].competitors, threads[t].clean_reviews,
                                                                   frames[FrameOf(t)])]
    /\ UNCHANGED <<env, loaded, NLTK_AVAILABLE, pc, product_name, reviews, category, competitors,
                   clean_reviews, idx, aspect_data, confidence_calls, result, call, frames, scraper, cache, tables>>

\* thread t has taken its result and is ready for its next call
ThreadNextCall(t) ==
    /\ threads[t].pc = "done"
    /\ threads' = [threads EXCEPT ![t] = IdleThread]
    /\ UNCHANGED <<env, loaded, NLTK_AVAILABLE, pc, product_name, reviews, category, competitors,
                   clean_reviews, idx, aspect_data, confidence_calls, result, call, frames, scraper, cache, tables>>

ConcNext ==
    \E t \in Threads :
        \/ ThreadCall(t)
        \/ ThreadAnalyzeAspectsReview(t)
        \/ ThreadReturn(t)
        \/ ThreadNextCall(t)

ConcSpec == ConcInit /\ [][ConcNext]_vars

\* ------------------------------------------------------------ FlipkartScraper

\* the table of generate_mock_reviews: text, rating, reviewer (texts that are
\* only passed on are kept whole, not as characters)
mock_reviews_data == <<
    <<"Excellent product! Worth every penny. Highly recommended.", 5, "John D.">>,
    <<"Good quality but delivery was delayed. Product itself is fine.", 4, "Sarah M.">>,
    <<"Not what I expected. Quality could be better for the price.", 2, "Mike R.">>,
    <<"Amazing! Exceeded my expectations. Will buy again.", 5, "Emma W.">>,
    <<"Decent product. Works as described but nothing special.", 3, "David L.">>,
    <<"Poor quality. Broke after 2 days. Very disappointed.", 1, "Lisa K.">>,
    <<"Great value for money. Happy with my purchase.", 4, "Tom H.">>,
    <<"Outstanding quality and fast shipping. 5 stars!", 5, "Anna P.">>,
    <<"Average product. Does the job but could be improved.", 3, "Chris B.">>,
    <<"Waste of money. Would not recommend to anyone.", 1, "Jennifer S.">>,
    <<"Pretty good overall. Minor issues but manageable.", 4, "Robert F.">>,
    <<"Love it! Best purchase I've made this year.", 5, "Michelle T.">>,
    <<"Okay for the price. Don't expect premium quality.", 3, "James C.">>,
    <<"Terrible experience. Product defective on arrival.", 1, "Patricia G.">>,
    <<"Solid product. Does exactly what it promises.", 4, "Kevin N.">>,
    <<"Absolutely fantastic! Can't fault it at all.", 5, "Linda M.">>,
    <<"Mediocre at best. Wouldn't buy again.", 2, "Steven W.">>,
    <<"Good enough for everyday use. Satisfied overall.", 4, "Nancy A.">>,
    <<"Disappointed with quality. Expected much better.", 2, "Daniel J.">>,
    <<"Perfect! No complaints whatsoever. Highly satisfied.", 5, "Karen E.">> >>

Min(a, b) == IF a < b THEN a ELSE b

\* generate_mock_reviews(product_name, source, count); review_date, a day
\* drawn at random from the last 90, is left out of the entries
generate_mock_reviews(name, source, count) ==
    [i \in 1..Min(count, Len(mock_reviews_data)) |->
        [product_name |-> name,
         source |-> source,
         review_text |-> mock_reviews_data[i][1],
         rating |-> mock_reviews_data[i][2],
         reviewer |-> mock_reviews_data[i][3],
         language |-> "en",
         images |-> <<>>]]

\* mutant of _validate_url: a search URL is not told from a product URL
_validate_url_AcceptsSearch(url) == Contains(<<"/","p","/">>, url) \/ Contains(<<"/","p","r","o","d","u","c","t","-","r","e","v","i","e","w","s","/">>, url)

_validate_url(url) ==
    IF Contains(<<"/","s","?">>, url) \/ Contains(<<"/","s","e","a","r","c","h","?">>, url) THEN FALSE
    ELSE IF ~Contains(<<"/","p","/">>, url) /\ ~Contains(<<"/","p","r","o","d","u","c","t","-","r","e","v","i","e","w","s","/">>, url) THEN FALSE
    ELSE TRUE

\* [0-9a-zA-Z]
AlnumSet == UpperSet \cup LowerSet \cup DigitSet

\* the characters of s from place i up to the first one that is in stop
RunUntil(s, i, stop) ==
    LET ends == {j \in i..Len(s) : s[j] \in stop}
    IN  SubSeq(s, i, IF ends = {} THEN Len(s) ELSE First(ends) - 1)

\* the characters of s from place i as long as they are in keep
RunOf(s, i, keep) == RunUntil(s, i, Range(s) \ keep)

\* s has sub at place i
HasAt(s, i, sub) == i >= 1 /\ i + Len(sub) - 1 <= Len(s) /\ SubSeq(s, i, i + Len(sub) - 1) = sub

\* the sentinel for a product id of None
NoId == <<>>

\* _extract_product_id(url): group 1 of the first match of
\* /p/(itm[0-9a-zA-Z]+), else the first non-blank pid of the query string
_extract_product_id(url) ==
    LET m == {i \in DOMAIN url : HasAt(url, i, <<"/","p","/","i","t","m">>) /\ RunOf(url, i + 6, AlnumSet) # <<>>}
        marks == {i \in DOMAIN url : url[i] = "?"}
        query == IF marks = {} THEN <<>> ELSE RunUntil(url, First(marks) + 1, {"#"})
        pids == {i \in DOMAIN query :
                    /\ HasAt(query, i, <<"p","i","d","=">>)
                    /\ (i = 1 \/ query[i - 1] = "&")
                    /\ RunUntil(query, i + 4, {"&"}) # <<>>}
    IN  IF m # {} THEN <<"i","t","m">> \o RunOf(url, First(m) + 6, AlnumSet)
        ELSE IF pids # {} THEN RunUntil(query, First(pids) + 4, {"&"})
        ELSE NoId

\* what _make_request comes to, whatever the server answers: a response
\* with status 200 or None, after one to max_retries calls of session.get
MakeRequestOutcomes == {_make_request(answers) : answers \in [1..max_retries -> ServerAnswers]}

\* what _parse_review returns for a block it can parse (the texts of the
\* page are not modelled)
ParsedReview(name) ==
    [product_name |-> name, source |-> "Flipkart", review_text |-> "scraped review", rating |-> 3,
     reviewer |-> "Anonymous", language |-> "en", images |-> <<>>]

\* the URLs handed to get_flipkart_reviews: search URLs (one with /p/ in its
\* query), a URL that is neither search nor product, product URLs with the
\* id in the path and in the query, and a product URL without an id
ScraperUrls == {
    <<"h","t","t","p","s",":","/","/","w","w","w",".","f","l","i","p","k","a","r","t",".","c","o","m","/","s","e","a","r","c","h","?","q","=","p","h","o","n","e">>,
    <<"h","t","t","p","s",":","/","/","w","w","w",".","f","l","i","p","k","a","r","t",".","c","o","m","/","s","?","q","=","x","/","p","/","i","t","m","1">>,
    <<"h","t","t","p","s",":","/","/","w","w","w",".","f","l","i","p","k","a","r","t",".","c","o","m","/","p","h","o","n","e","s">>,
    <<"h","t","t","p","s",":","/","/","w","w","w",".","f","l","i","p","k","a","r","t",".","c","o","m","/","x","/","p","/","i","t","m","1","2","a","b","?","l","i","d","=","1">>,
    <<"h","t","t","p","s",":","/","/","w","w","w",".","f","l","i","p","k","a","r","t",".","c","o","m","/","x","/","p","r","o","d","u","c","t","-","r","e","v","i","e","w","s","/","a","b","c","?","l","i","d","=","1","&","p","i","d","=","M","O","B","1">>,
    <<"h","t","t","p","s",":","/","/","w","w","w",".","f","l","i","p","k","a","r","t",".","c","o","m","/","x","/","p","/","a","b","c">>}

\* the max_reviews handed to get_flipkart_reviews: none, few, and as many as
\* or more than the mock table holds
WantedCounts == {0, 1, 2, MaxWanted - 1, MaxWanted}

\* everything of the analyzer
analyzer_state == <<env, loaded, NLTK_AVAILABLE, pc, product_name, reviews, category, competitors,
                    clean_reviews, idx, aspect_data, confidence_calls, result, call, threads, frames, tables>>

\* what the scraper does not touch: the analyzer and the cache
analyzer_vars == <<analyzer_state, cache>>

\* a FlipkartScraper has been constructed; no call is under way (the
\* scraper imports nothing of the analyzer, whose module is not loaded)
ScraperInit == Init /\ env = [nltk |-> "ok", textblob |-> TRUE]

\* get_flipkart_reviews(product_url, max_reviews) up to the request for the
\* product page, or the whole call when the URL is rejected or has no id
get_flipkart_reviews(product_url, max_reviews) ==
    /\ scraper.pc = "idle"
    /\ IF ~_validate_url(product_url)
       THEN scraper' = [IdleScraper EXCEPT !.pc = "done", !.product_url = product_url, !.max_reviews = max_reviews,
                                           !.ret = generate_mock_reviews("Flipkart Product", "Flipkart", max_reviews)]
       ELSE IF _extract_product_id(product_url) = NoId
       THEN scraper' = [IdleScraper EXCEPT !.pc = "done", !.product_url = product_url, !.max_reviews = max_reviews,
                                           !.ret = generate_mock_reviews("Flipkart Product", "Flipkart", max_reviews)]
       ELSE scraper' = [IdleScraper EXCEPT !.pc = "name", !.product_url = product_url, !.max_reviews = max_reviews,
                                           !.product_id = _extract_product_id(product_url)]
    /\ UNCHANGED analyzer_vars

GetFlipkartReviewsCall ==
    /\ scraper.pc = "idle"
    /\ \E product_url \in ScraperUrls, max_reviews \in WantedCounts :
          get_flipkart_reviews(product_url, max_reviews)

\* product_name = self._get_product_name(product_url) or "Flipkart Product"
GetProductName ==
    /\ scraper.pc = "name"
    /\ \E o \in MakeRequestOutcomes, named \in BOOLEAN :
          scraper' = [scraper EXCEPT !.pc = "pages",
                                     !.http_requests = @ + o.attempts,
                                     !.product_name = IF o.ok /\ named THEN "Name on the page" ELSE "Flipkart Product",
                                     !.page = 1]
    /\ UNCHANGED analyzer_vars

\* mutant of MorePages: the pages that failed in a row are not counted
MorePages_NoFailureLimit ==
    /\ Len(scraper.reviews) < scraper.max_reviews
    /\ scraper.page <= 5

\* the condition of the while loop over the pages of reviews
MorePages ==
    /\ Len(scraper.reviews) < scraper.max_reviews
    /\ scraper.consecutive_failures < 3
    /\ scraper.page <= 5

\* one iteration of the while loop: the page is requested; no response, no
\* review block (and then maybe the end of the reviews), or blocks of which
\* some parse
FetchReviewsPage ==
    /\ scraper.pc = "pages"
    /\ MorePages
    /\ \E o \in MakeRequestOutcomes, blocks \in 0..MaxBlocks, parsed \in 0..MaxBlocks, end \in BOOLEAN :
          /\ parsed <= blocks
          /\ ~o.ok => (blocks = 0 /\ ~end)
          /\ blocks > 0 => ~end
          /\ LET page_reviews == Min(parsed, scraper.max_reviews - Len(scraper.reviews))
             IN  scraper' =
                    IF ~o.ok \/ blocks = 0
                    THEN [scraper EXCEPT !.http_requests = @ + o.attempts,
                                         !.consecutive_failures = @ + 1,
                                         !.page = IF end THEN @ ELSE @ + 1,
                                         !.pc = IF end THEN "finish" ELSE @]
                    ELSE [scraper EXCEPT !.http_requests = @ + o.attempts,
                                         !.reviews = @ \o [i \in 1..page_reviews |-> ParsedReview(scraper.product_name)],
                                         !.consecutive_failures = IF page_reviews > 0 THEN 0 ELSE @ + 1,
                                         !.page = @ + 1]
    /\ UNCHANGED analyzer_vars

\* after the loop: the scraped reviews, or mock reviews when there is none
ScrapeReturn ==
    /\ scraper.pc = "finish" \/ (scraper.pc = "pages" /\ ~MorePages)
    /\ scraper' = [scraper EXCEPT !.pc = "done",
                                  !.ret = IF Len(scraper.reviews) = 0
                                          THEN generate_mock_reviews(scraper.product_name, "Flipkart", scraper.max_reviews)
                                          ELSE scraper.reviews]
    /\ UNCHANGED analyzer_vars

\* the caller has taken the reviews; the scraper is ready for its next call
ScraperNextCall ==
    /\ scraper.pc = "done"
    /\ scraper' = IdleScraper
    /\ UNCHANGED analyzer_vars

ScraperNext ==
    \/ GetFlipkartReviewsCall
    \/ GetProductName
    \/ FetchReviewsPage
    \/ ScrapeReturn
    \/ ScraperNextCall

ScraperSpec == ScraperInit /\ [][ScraperNext]_vars

\* a call that has begun runs on: get_flipkart_reviews is sequential code,
\* and each of its steps (a request with its bounded retries and waits, the
\* parsing of a page) comes to an end
ScraperFairSpec == ScraperSpec /\ WF_vars(GetProductName \/ FetchReviewsPage \/ ScrapeReturn)

\* ------------------------------------------------------------------ ReviewCache

\* self.expiry_hours of the cache that is constructed: ReviewCache(expiry_hours=1)
expiry_hours == 1

\* the identifiers and sources handed to the cache
CacheIdentifiers == {<<"u","1">>}

CacheSources == {<<"a","m","a","z","o","n">>, <<"f","l","i","p","k","a","r","t">>}

\* the review lists handed to set_cached: the empty list, the list of the
\* example at the end of cache.py (its review names the shop as 'Amazon' and
\* has a date object), and a review that mentions another shop
CacheReviewLists == {
    <<>>,
    <<[source |-> <<"A","m","a","z","o","n">>, review_text |-> <<"G","r","e","a","t","!">>,
       review_date |-> [t |-> "date", iso |-> <<"2","0","2","4","-","0","1","-","0","1">>, repr |-> <<"d","a","t","e","t","i","m","e",".","d","a","t","e","(","2","0","2","4",","," ","1",","," ","1",")">>]]>>,
    <<[source |-> <<"A","m","a","z","o","n">>, review_text |-> <<"s","e","e"," ","f","l","i","p","k","a","r","t">>]>>}

\* mutant of _generate_key: the key is made of the identifier alone
_generate_key_NoSource(identifier, source) == identifier

\* hashlib.md5(f"{source}:{identifier}".encode()).hexdigest(): the digest
\* is kept as the text it is the digest of (no two texts of the model share
\* a digest)
_generate_key(identifier, source) == source \o <<":">> \o identifier

\* ReviewCache.__init__: use_db tells whether SQLAlchemy is there and the
\* database could be opened
ReviewCacheInit ==
    /\ cache.fn = "none"
    /\ \E use_db \in BOOLEAN : cache' = [NoCache EXCEPT !.fn = "__init__", !.use_db = use_db]
    /\ UNCHANGED <<analyzer_state, scraper>>

\* self._get_from_db(cache_key) and self._get_from_memory(cache_key); what
\* is returned is <<>> for None and <<revs>> for a list
get_cached(self, identifier, source) ==
    LET cache_key == _generate_key(identifier, source)
        rows == {i \in DOMAIN self.db : self.db[i].cache_key = cache_key}
        cached == self.db[First(rows)]
        hits == {i \in DOMAIN self.memory_cache : self.memory_cache[i].key = cache_key}
        cached_data == self.memory_cache[First(hits)].v
        called == [self EXCEPT !.fn = "get_cached", !.identifier = identifier, !.source = source]
    IN  IF self.use_db
        THEN IF rows = {} THEN [called EXCEPT !.ret = <<>>]
             ELSE IF cached.expires_at < self.now
             THEN [called EXCEPT !.ret = <<>>, !.db = SelectSeq(@, LAMBDA row : row.cache_key # cache_key)]
             ELSE [called EXCEPT !.ret = <<cached.reviews_json>>]
        ELSE IF hits = {} THEN [called EXCEPT !.ret = <<>>]
             ELSE IF cached_data.expires_at < self.now
             THEN [called EXCEPT !.ret = <<>>, !.memory_cache = SelectSeq(@, LAMBDA e : e.key # cache_key)]
             ELSE [called EXCEPT !.ret = <<cached_data.reviews>>]

\* self._set_in_db(cache_key, source, identifier, revs) and
\* self._set_in_memory(cache_key, revs)
set_cached(self, identifier, source, revs) ==
    LET cache_key == _generate_key(identifier, source)
        rows == {i \in DOMAIN self.db : self.db[i].cache_key = cache_key}
        expires_at == self.now + expiry_hours
        \* json.loads(json.dumps(serializable_reviews)): what _get_from_db will
        \* read back; a date object has become the string of its isoformat()
        reviews_json ==
            [i \in DOMAIN revs |->
                IF "review_date" \in DOMAIN revs[i] /\ revs[i].review_date.t = "date"
                THEN [revs[i] EXCEPT !.review_date = [t |-> "str", iso |-> @.iso, repr |-> <<"'">> \o @.iso \o <<"'">>]]
                ELSE revs[i]]
        called == [self EXCEPT !.fn = "set_cached", !.identifier = identifier, !.source = source, !.ret = <<>>]
    IN  IF revs = <<>> THEN called
        ELSE IF self.use_db
        THEN IF rows # {}
             THEN [called EXCEPT !.db[First(rows)].reviews_json = reviews_json,
                                 !.db[First(rows)].expires_at = expires_at]
             ELSE [called EXCEPT !.db = Append(@, [identifier |-> identifier, source |-> source,
                                                   cache_key |-> cache_key,
                                                   expires_at |-> expires_at,
                                                   reviews_json |-> reviews_json])]
        ELSE [called EXCEPT !.memory_cache = DictSet(@, cache_key, [reviews |-> revs, expires_at |-> expires_at])]

\* clear_cache(source); source is <<>> for None as well as for ''
clear_cache(self, source) ==
    LET \* str(v) of an entry v of memory_cache, a dict of 'reviews' and 'expires_at'
        review(r) == <<"{","'","r","e","v","i","e","w","_","t","e","x","t","'",":"," ","'">> \o r.review_text \o <<"'",","," ","'","s","o","u","r","c","e","'",":"," ","'">> \o r.source \o <<"'">>
                     \o (IF "review_date" \in DOMAIN r THEN <<","," ","'","r","e","v","i","e","w","_","d","a","t","e","'",":"," ">> \o r.review_date.repr ELSE <<>>)
                     \o <<"}">>
        str(v) == <<"{","'","r","e","v","i","e","w","s","'",":"," ","[">> \o JoinWith(<<","," ">>, [i \in DOMAIN v.reviews |-> review(v.reviews[i])])
                  \o <<"]",","," ","'","e","x","p","i","r","e","s","_","a","t","'",":"," ","d","a","t","e","t","i","m","e",".","d","a","t","e","t","i","m","e","(">> \o IntDigits(v.expires_at) \o <<")","}">>
        called == [self EXCEPT !.fn = "clear_cache", !.identifier = <<>>, !.source = source, !.ret = <<>>]
        db == IF ~self.use_db THEN self.db
              ELSE IF source # <<>> THEN SelectSeq(self.db, LAMBDA row : row.source # source)
              ELSE <<>>
        memory_cache == IF source # <<>>
                        THEN SelectSeq(self.memory_cache, LAMBDA e : ~Contains(source, str(e.v)))
                        ELSE <<>>
    IN  [called EXCEPT !.db = db, !.memory_cache = memory_cache]

\* a caller of the cache calls get_cached
GetCachedCall ==
    /\ cache.fn # "none"
    /\ \E identifier \in CacheIdentifiers, source \in CacheSources :
          cache' = get_cached(cache, identifier, source)
    /\ UNCHANGED <<analyzer_state, scraper>>

\* a caller of the cache calls set_cached; cache.stored keeps the calls of
\* set_cached so far, the latest of each (identifier, source), with the
\* clock reading of the call and whether clear_cache was called since: it
\* tells what the cache was given and is never read by it
SetCachedCall ==
    /\ cache.fn # "none"
    /\ \E identifier \in CacheIdentifiers, source \in CacheSources, revs \in CacheReviewLists :
          cache' = [set_cached(cache, identifier, source, revs) EXCEPT
                        !.stored = IF revs = <<>> THEN @
                                   ELSE SelectSeq(@, LAMBDA e : ~(e.identifier = identifier /\ e.source = source))
                                        \o <<[reviews |-> revs, identifier |-> identifier, source |-> source,
                                              at |-> cache.now, cleared |-> FALSE]>>]
    /\ UNCHANGED <<analyzer_state, scraper>>

\* a caller of the cache calls clear_cache
ClearCacheCall ==
    /\ cache.fn # "none"
    /\ \E source \in CacheSources \cup {<<>>} :
          cache' = [clear_cache(cache, source) EXCEPT
                        !.stored = [i \in DOMAIN @ |-> [@[i] EXCEPT !.cleared = TRUE]]]
    /\ UNCHANGED <<analyzer_state, scraper>>

\* datetime.now() has moved on by an hour; the caller has taken what the
\* last call returned
ClockTick ==
    /\ cache.fn # "none"
    /\ cache.now < MaxClock
    /\ cache' = [cache EXCEPT !.now = @ + 1, !.fn = "idle", !.identifier = <<>>, !.source = <<>>, !.ret = <<>>]
    /\ UNCHANGED <<analyzer_state, scraper>>

\* no cache has been constructed yet (the cache imports nothing of the
\* analyzer, whose module is not loaded)
CacheInit == Init /\ env = [nltk |-> "ok", textblob |-> TRUE]

CacheNext ==
    \/ ReviewCacheInit
    \/ GetCachedCall
    \/ SetCachedCall
    \/ ClearCacheCall
    \/ ClockTick

CacheSpec == CacheInit /\ [][CacheNext]_vars

\* --------------------------------------------------------------------- claims

\* a call of analyze_reviews has returned
Returned == pc = "done"

\* a call with a non-empty review list has returned
ReturnedNonEmpty == pc = "done" /\ reviews # <<>>

\* the keys of an aspects map
AspectKeys(aspects) == {aspects[i].key : i \in DOMAIN aspects}

\* the text has a character that is not whitespace
NonBlank(s) == \E i \in DOMAIN s : s[i] \notin Whitespace

\* C1: a result with review_count 0 has no aspects, no themes, confidence
\* "None" and the fixed no-reviews message, and the confidence estimator is
\* never called with a review count of 0.
C1_ZeroReviewsCanonical ==
    Returned =>
        /\ result.review_count = 0 =>
              /\ result.aspects = <<>>
              /\ result.key_themes = <<>>
              /\ result.analysis_confidence = "None"
              /\ result.overall_feedback = NO_REVIEWS_MESSAGE
        /\ \A i \in DOMAIN confidence_calls : confidence_calls[i] # 0

\* an aspect entry carries a count and a distribution that add up, count >= 1
TallyConsistent(v) ==
    /\ "count" \in DOMAIN v
    /\ "distribution" \in DOMAIN v
    /\ v.count = v.distribution.positive + v.distribution.negative + v.distribution.neutral
    /\ v.count >= 1

\* C2 as stated: every entry of the aspects map, the synthesized General
\* entry included, has count == positive + negative + neutral and count >= 1.
C2_EveryEntryHasCount ==
    Returned => \A i \in DOMAIN result.aspects : TallyConsistent(result.aspects[i].v)

\* C2 amended: every entry of the aspects map other than General has
\* count == positive + negative + neutral and count >= 1; the General entry
\* synthesized for a result without aspects has a sentiment and a reason only.
C2_EveryDetectedEntryHasCount ==
    Returned =>
        \A i \in DOMAIN result.aspects :
            IF result.aspects[i].key = <<"G","e","n","e","r","a","l">>
            THEN DOMAIN result.aspects[i].v = {"sentiment", "reason"}
            ELSE TallyConsistent(result.aspects[i].v)

\* C2 witness: a returned aspects map with an entry counting a negative mention
C2_Witness ==
    /\ Returned
    /\ \E i \in DOMAIN result.aspects :
          /\ result.aspects[i].key = <<"C","a","m","e","r","a">>
          /\ result.aspects[i].v.distribution.negative = 1

\* some cleaned review contains the word (case-insensitively)
SomeReviewContains(word) == \E j \in DOMAIN clean_reviews : Contains(word, Lower(clean_reviews[j]))

\* C3: a television result never has a Camera entry; a mobile result whose
\* reviews contain the word "camera" has one.
C3_CategoryScoping ==
    ReturnedNonEmpty =>
        /\ result.category = <<"t","e","l","e","v","i","s","i","o","n">> => <<"C","a","m","e","r","a">> \notin AspectKeys(result.aspects)
        /\ (result.category = <<"m","o","b","i","l","e">> /\ SomeReviewContains(<<"c","a","m","e","r","a">>))
              => <<"C","a","m","e","r","a">> \in AspectKeys(result.aspects)

\* the cleaned reviews that match an aspect: by a keyword of an active
\* aspect, or by an adjective + noun pair naming it
MatchingReviews(aspect) ==
    {j \in DOMAIN clean_reviews :
        \/ /\ aspect \in ActiveAspects(category)
           /\ \E i \in DOMAIN aspect_keywords :
                 /\ aspect_keywords[i][1] = aspect
                 /\ KeywordMatched(keywords_lower[i], Lower(clean_reviews[j]), _lemmatize_text(clean_reviews[j]))
        \/ /\ NLTK_AVAILABLE
           /\ \E k \in DOMAIN _extract_pos_aspects(clean_reviews[j]) :
                 _extract_pos_aspects(clean_reviews[j])[k][1] = aspect}

\* C4: the count of an aspect is the number of cleaned reviews matching it,
\* so at most review_count; when more than half of them are positive the
\* verdict is positive and its reason cites "P/N".
C4_OneMentionPerReview ==
    ReturnedNonEmpty =>
        \A i \in DOMAIN result.aspects :
            "count" \in DOMAIN result.aspects[i].v =>
                LET matching == MatchingReviews(Lower(result.aspects[i].key))
                    n == Cardinality(matching)
                    p == Cardinality({j \in matching : _get_sentence_sentiment(clean_reviews[j]) = "positive"})
                IN  /\ result.aspects[i].v.count = n
                    /\ result.aspects[i].v.count <= result.review_count
                    /\ 2 * p > n =>
                          /\ result.aspects[i].v.sentiment = "positive"
                          /\ Contains(IntDigits(p) \o <<"/">> \o IntDigits(n), result.aspects[i].v.reason)

\* a malformed entry: neither string nor record, or a record none of whose
\* text fields holds a string
Malformed(r) ==
    \/ r.t \notin {"str", "dict"}
    \/ /\ r.t = "dict"
       /\ \A k \in DOMAIN TEXT_FIELDS : TEXT_FIELDS[k] \in DOMAIN r.d => r.d[TEXT_FIELDS[k]].t # "str"

\* C5: malformed entries are dropped: review_count is at most the number of
\* well-formed entries, and a list of malformed entries only yields no
\* cleaned review, no tally and no theme.
C5_MalformedDropped ==
    ReturnedNonEmpty =>
        /\ result.review_count <= Cardinality({i \in DOMAIN reviews : ~Malformed(reviews[i])})
        /\ (\A i \in DOMAIN reviews : Malformed(reviews[i])) =>
              /\ result.review_count = 0
              /\ aspect_data = <<>>
              /\ result.key_themes = <<>>

\* the cleaned texts of a review list when record r contributes text(r)
CleanedWith(revs, text(_)) ==
    LET texts == [i \in DOMAIN revs |-> Strip(IF revs[i].t = "dict" THEN text(revs[i]) ELSE ToStr(revs[i]))]
    IN  SelectSeq(texts, LAMBDA s : s # <<>>)

\* the first field, in the order of TEXT_FIELDS, that is present and not None
FirstNonNullText(r) ==
    LET hit == {k \in DOMAIN TEXT_FIELDS : TEXT_FIELDS[k] \in DOMAIN r.d /\ r.d[TEXT_FIELDS[k]].t # "none"}
    IN  IF hit = {} THEN <<>> ELSE ToStr(r.d[TEXT_FIELDS[First(hit)]])

\* the first field, in the order of TEXT_FIELDS, that is present and true
\* in the Python sense (not None, not "", not 0)
FirstTrueText(r) ==
    LET hit == {k \in DOMAIN TEXT_FIELDS :
                   /\ TEXT_FIELDS[k] \in DOMAIN r.d
                   /\ r.d[TEXT_FIELDS[k]].t # "none"
                   /\ r.d[TEXT_FIELDS[k]] # PyStr(<<>>)
                   /\ r.d[TEXT_FIELDS[k]] # PyInt(0)}
    IN  IF hit = {} THEN <<>> ELSE ToStr(r.d[TEXT_FIELDS[First(hit)]])

\* C6 as stated: the text of a record is the value of its first field, in the
\* order review_text, review, text, body, content, that is present and not
\* null; later fields are not consulted.
C6_FirstNonNullFieldWins ==
    ReturnedNonEmpty => clean_reviews = CleanedWith(reviews, FirstNonNullText)

\* C6 amended: the text of a record is the value of its first field, in the
\* order review_text, review, text, body, content, that is present and true
\* in the Python sense (not null, not the empty string, not 0); a present but
\* empty field is skipped, and fields after the first true one are not
\* consulted.
C6_FirstTrueFieldWins ==
    ReturnedNonEmpty => clean_reviews = CleanedWith(reviews, FirstTrueText)

\* C6 witness: a record with two texts was cleaned to its first one, and a
\* record with an empty review_text to its text
C6_Witness ==
    /\ ReturnedNonEmpty
    /\ Len(reviews) = 2
    /\ DOMAIN reviews[1].d = {"review", "content"}
    /\ DOMAIN reviews[2].d = {"review_text", "text"}
    /\ clean_reviews = <<<<"g","r","e","a","t"," ","c","a","m","e","r","a">>, <<"g","o","o","d"," ","v","a","l","u","e">>>>

\* C7: review_count is the number of entries whose text is not blank, never
\* more than the length of the input list; a blank entry is in no tally and
\* no theme.
C7_BlankReviewsDiscarded ==
    Returned =>
        /\ result.review_count = Cardinality({i \in DOMAIN reviews : NonBlank(ToStr(EntryText(reviews[i])))})
        /\ result.review_count <= Len(reviews)
        /\ \A i \in DOMAIN aspect_data : \A k \in DOMAIN aspect_data[i].mentions : NonBlank(aspect_data[i].mentions[k])
        /\ \A i \in DOMAIN result.key_themes : result.key_themes[i].mention_count <= result.review_count
        /\ (\A i \in DOMAIN reviews : ~NonBlank(ToStr(EntryText(reviews[i])))) =>
              aspect_data = <<>> /\ result.key_themes = <<>>

\* C7 witness: a list of one blank and one non-blank entry returned with
\* review_count 1
C7_Witness ==
    /\ Returned
    /\ Len(reviews) = 2
    /\ reviews[1] = PyStr(<<" "," ">>)
    /\ result.review_count = 1

\* C8: analyze_reviews(name, []) returns review_count 0, no aspects, no
\* themes, confidence "None", no recommendations and the category of the
\* name (television for "Sony TV", general for "Unknown Gadget").
C8_EmptyInputLaw ==
    (Returned /\ reviews = <<>>) =>
        /\ result.review_count = 0
        /\ result.aspects = <<>>
        /\ result.key_themes = <<>>
        /\ result.analysis_confidence = "None"
        /\ result.recommended_products = <<>>
        /\ result.category = detect_product_category(product_name)
        /\ product_name = <<"S","o","n","y"," ","T","V">> => result.category = <<"t","e","l","e","v","i","s","i","o","n">>
        /\ product_name = <<"S","a","m","s","u","n","g"," ","G","a","l","a","x","y">> => result.category = <<"m","o","b","i","l","e">>
        /\ product_name = <<"U","n","k","n","o","w","n"," ","G","a","d","g","e","t">> => result.category = <<"g","e","n","e","r","a","l">>

\* C8 witness: a call with the empty list returned for a branded name
C8_Witness == Returned /\ reviews = <<>> /\ product_name = <<"S","o","n","y"," ","T","V">> /\ result.review_count = 0

\* C9: whatever optional capability is missing (lemmatizer, tagger, polarity
\* backend), the module loads, and a call returns a result.
C9_OptionalCapabilities ==
    /\ loaded # "error"
    /\ (Returned /\ env.nltk # "ok") => result.review_count = Len(clean_reviews)

\* the aspects map is the synthesized General entry alone
OnlyGeneral(aspects) == aspects = <<[key |-> <<"G","e","n","e","r","a","l">>, v |-> GeneralEntry]>>

\* C10: when no aspect has a mention (as for the single review "good") the
\* aspects map is exactly General, neutral, "No specific aspects identified
\* in reviews"; the synthesized entry occurs only on its own.
C10_GeneralOnlyWhenNoAspect ==
    ReturnedNonEmpty =>
        /\ (\A i \in DOMAIN aspect_data :
               aspect_data[i].positive + aspect_data[i].negative + aspect_data[i].neutral = 0)
              => OnlyGeneral(result.aspects)
        /\ clean_reviews = <<<<"g","o","o","d">>>> => OnlyGeneral(result.aspects)
        /\ (\E i \in DOMAIN result.aspects : "count" \notin DOMAIN result.aspects[i].v)
              => (OnlyGeneral(result.aspects) /\ aspect_data = <<>>)

\* C10 witness: the single review "good" returned the General entry
C10_Witness == ReturnedNonEmpty /\ clean_reviews = <<<<"g","o","o","d">>>> /\ OnlyGeneral(result.aspects)

\* the latest direct call was of fn
Called(fn) == call.fn = fn

\* C11: _format_aspect_result maps a tally with total > 0 to positive iff
\* positive/total > 0.5, else to negative iff negative/total > 0.5, else to
\* neutral; a ratio of exactly 0.5 is neutral; a tally with total 0 gives
\* neutral, "Not mentioned", count 0.
C11_MajorityRule ==
    Called("_format_aspect_result") =>
        LET data == call.args[2]
            total == data.positive + data.negative + data.neutral
        IN  /\ total > 0 =>
                  /\ call.ret.sentiment \in {"positive", "negative", "neutral"}
                  /\ call.ret.sentiment = "positive" <=> 2 * data.positive > total
                  /\ call.ret.sentiment = "negative" <=> (2 * data.positive <= total /\ 2 * data.negative > total)
                  /\ call.ret.count = total
            /\ (2 * data.positive = total \/ 2 * data.negative = total) => call.ret.sentiment = "neutral"
            /\ total = 0 => call.ret = [sentiment |-> "neutral", reason |-> <<"N","o","t"," ","m","e","n","t","i","o","n","e","d">>, count |-> 0]

\* C11 witness: the tally positive 1, negative 1, neutral 0 was formatted as
\* neutral
C11_Witness ==
    /\ Called("_format_aspect_result")
    /\ call.args[2].positive = 1 /\ call.args[2].negative = 1 /\ call.args[2].neutral = 0
    /\ call.ret.sentiment = "neutral"

\* the positive and the negative words of the texts the classifier is called
\* with, counted by hand
LexiconVotes == <<
    [text |-> <<"g","o","o","d">>, pos_count |-> 1, neg_count |-> 0],
    [text |-> <<"B","a","d">>, pos_count |-> 0, neg_count |-> 1],
    [text |-> <<"g","o","o","d"," ","b","u","t"," ","b","a","d">>, pos_count |-> 1, neg_count |-> 1],
    [text |-> <<"o","k","a","y">>, pos_count |-> 0, neg_count |-> 0],
    [text |-> <<"g","r","e","a","t",","," ","g","o","o","d",","," ","b","a","d">>, pos_count |-> 2, neg_count |-> 1],
    [text |-> <<"n","o","t"," ","b","a","d",","," ","p","o","o","r">>, pos_count |-> 0, neg_count |-> 3] >>

\* C12: the sentence classifier answers positive if pos_count > neg_count
\* and polarity >= 0; else negative if neg_count > pos_count and polarity <= 0;
\* else positive if polarity > 0.2; else negative if polarity < -0.2; else
\* neutral; always one of the three.
C12_DecisionOrder ==
    Called("_get_sentence_sentiment") =>
        /\ call.ret \in {"positive", "negative", "neutral"}
        /\ \E i \in DOMAIN LexiconVotes :
              /\ LexiconVotes[i].text = call.args[1]
              /\ LET pos_count == LexiconVotes[i].pos_count
                     neg_count == LexiconVotes[i].neg_count
                     polarity == call.args[2]
                     first == pos_count > neg_count /\ polarity >= 0
                     second == neg_count > pos_count /\ polarity <= 0
                     third == polarity > 20
                     fourth == polarity < 0 - 20
                 IN  /\ first => call.ret = "positive"
                     /\ (~first /\ second) => call.ret = "negative"
                     /\ (~first /\ ~second /\ third) => call.ret = "positive"
                     /\ (~first /\ ~second /\ ~third /\ fourth) => call.ret = "negative"
                     /\ (~first /\ ~second /\ ~third /\ ~fourth) => call.ret = "neutral"

\* C12 witness: a text with more positive words came out negative, its
\* polarity being below -0.2
C12_Witness ==
    /\ Called("_get_sentence_sentiment")
    /\ call.args = <<<<"g","o","o","d">>, 0 - 21>>
    /\ call.ret = "negative"

\* the brands of the table occurring in the name, case-insensitively, by
\* their place in the table
BrandsIn(name) ==
    {i \in DOMAIN BRAND_TO_CATEGORY : Contains(Lower(BRAND_TO_CATEGORY[i][1]), Lower(name))}

\* C13: when a brand of the table occurs in the name (case-insensitively),
\* detect_product_category answers the category of the first such brand in
\* table order, whatever category keywords the name has.
C13_BrandFirst ==
    Called("detect_product_category") =>
        LET name == call.args[1]
        IN  /\ BrandsIn(name) # {} => call.ret = BRAND_TO_CATEGORY[First(BrandsIn(name))][2]
            /\ name = <<"S","o","n","y"," ","p","h","o","n","e">> => call.ret = <<"t","e","l","e","v","i","s","i","o","n">>
            /\ name = <<"S","o","n","y"," ","S","a","m","s","u","n","g"," ","T","V">> => call.ret = <<"m","o","b","i","l","e">>
            /\ name = <<"R","a","c","e","r"," ","s","h","o","e">> => call.ret = <<"l","a","p","t","o","p">>
            /\ name = <<"A","p","p","l","e"," ","M","a","c","B","o","o","k">> => call.ret = <<"m","o","b","i","l","e">>

\* C13 witness: a name with a television brand and a mobile keyword came out
\* television
C13_Witness ==
    /\ Called("detect_product_category")
    /\ call.args = <<<<"S","o","n","y"," ","p","h","o","n","e">>>>
    /\ call.ret = <<"t","e","l","e","v","i","s","i","o","n">>

\* the keyword lists as the claim gives them
ClaimedKeywords == <<
    <<<<"m","o","b","i","l","e">>, <<<<"p","h","o","n","e">>, <<"m","o","b","i","l","e">>, <<"s","m","a","r","t","p","h","o","n","e">>>> >>,
    <<<<"l","a","p","t","o","p">>, <<<<"l","a","p","t","o","p">>, <<"n","o","t","e","b","o","o","k">>, <<"m","a","c","b","o","o","k">>, <<"c","h","r","o","m","e","b","o","o","k">>>> >>,
    <<<<"t","e","l","e","v","i","s","i","o","n">>, <<<<"t","v">>, <<"t","e","l","e","v","i","s","i","o","n">>, <<"q","l","e","d">>>> >>,
    <<<<"a","u","d","i","o">>, <<<<"e","a","r","p","h","o","n","e">>, <<"h","e","a","d","p","h","o","n","e">>, <<"e","a","r","b","u","d">>, <<"s","p","e","a","k","e","r">>, <<"s","o","u","n","d","b","a","r">>>> >>,
    <<<<"f","o","o","t","w","e","a","r">>, <<<<"s","h","o","e">>, <<"s","l","i","p","p","e","r">>, <<"s","a","n","d","a","l">>, <<"b","o","o","t">>, <<"s","n","e","a","k","e","r">>>> >>,
    <<<<"f","a","s","h","i","o","n">>, <<<<"s","h","i","r","t">>, <<"p","a","n","t">>, <<"j","e","a","n">>, <<"d","r","e","s","s">>, <<"t","s","h","i","r","t">>, <<"k","u","r","t","i">>>> >>,
    <<<<"h","o","m","e","_","a","p","p","l","i","a","n","c","e">>, <<<<"r","e","f","r","i","g","e","r","a","t","o","r">>, <<"w","a","s","h","i","n","g">>, <<"m","i","c","r","o","w","a","v","e">>, <<"a","c">>, <<"c","o","o","l","e","r">>>> >> >>

\* the same lists with the two keywords the claim leaves out
AmendedKeywords ==
    [i \in DOMAIN ClaimedKeywords |->
        <<ClaimedKeywords[i][1],
          ClaimedKeywords[i][2] \o (CASE ClaimedKeywords[i][1] = <<"m","o","b","i","l","e">> -> <<<<"5","g">>>>
                                     [] ClaimedKeywords[i][1] = <<"t","e","l","e","v","i","s","i","o","n">> -> <<<<"s","m","a","r","t"," ","t","v">>>>
                                     [] OTHER -> <<>>)>>]

\* the category of the first list with a keyword in the name, else general
KeywordCategory(lists, name) ==
    LET hit == {i \in DOMAIN lists : \E k \in DOMAIN lists[i][2] : Contains(lists[i][2][k], Lower(name))}
    IN  IF hit = {} THEN <<"g","e","n","e","r","a","l">> ELSE lists[First(hit)][1]

\* C14 as stated: without a brand in the name, detect_product_category
\* answers the category of the first list, in the order mobile, laptop,
\* television, audio, footwear, fashion, home_appliance, with a keyword in
\* the name, the lists being exactly phone/mobile/smartphone, ..., and general
\* when there is none (so for the empty name).
C14_KeywordFallback_AsStated ==
    (Called("detect_product_category") /\ BrandsIn(call.args[1]) = {}) =>
        call.ret = KeywordCategory(ClaimedKeywords, call.args[1])

\* C14 amended: the same, the mobile list being phone/mobile/smartphone/5g
\* and the television list tv/television/smart tv/qled.
C14_KeywordFallback ==
    (Called("detect_product_category") /\ BrandsIn(call.args[1]) = {}) =>
        /\ call.ret = KeywordCategory(AmendedKeywords, call.args[1])
        /\ call.args[1] = <<>> => call.ret = <<"g","e","n","e","r","a","l">>
        /\ call.args[1] = <<"N","o","t","e","b","o","o","k"," ","p","h","o","n","e">> => call.ret = <<"m","o","b","i","l","e">>
        /\ call.args[1] = <<"p","a","n","t"," ","b","o","o","t">> => call.ret = <<"f","o","o","t","w","e","a","r">>

\* C14 witness: a name with no brand and the keyword 5g came out mobile
C14_Witness ==
    /\ Called("detect_product_category")
    /\ call.args = <<<<"R","e","d","m","i"," ","5","G">>>>
    /\ BrandsIn(call.args[1]) = {}
    /\ call.ret = <<"m","o","b","i","l","e">>

\* the recommendation is of the brand: its name is the brand, a space, and
\* the name of the series
Names(entry, brand) == Len(entry.name) > Len(brand) /\ Prefix(entry.name, Len(brand) + 1) = brand \o <<" ">>

\* the competitor list of the category, in table order, without the first
\* brand of the brand table that occurs in the name
Candidates(name, cat) ==
    LET hit == {i \in DOMAIN COMPETITOR_MAP : COMPETITOR_MAP[i][1] = cat}
        list == IF hit = {} THEN <<>> ELSE COMPETITOR_MAP[First(hit)][2]
    IN  IF BrandsIn(name) = {} THEN list
        ELSE SelectSeq(list, LAMBDA c : Lower(c) # Lower(BRAND_TO_CATEGORY[First(BrandsIn(name))][1]))

\* C15: recommended_products has at most 4 entries, each of the category of
\* the result; after an analysis (a call with a non-empty review list; the
\* empty list returns the empty result of C8) they are the first brands, up
\* to 4, of the competitor list of the category, in table order, without
\* the brand detected in the product name, which no recommendation names.
C15_Recommendations ==
    Returned =>
        LET recs == result.recommended_products
            cands == Candidates(product_name, result.category)
        IN  /\ Len(recs) <= 4
            /\ \A i \in DOMAIN recs : recs[i].category = result.category
            /\ reviews # <<>> =>
                  /\ Len(recs) = (IF Len(cands) < 4 THEN Len(cands) ELSE 4)
                  /\ \A i \in DOMAIN recs : Names(recs[i], cands[i])
                  /\ \A i \in DOMAIN recs : \A b \in BrandsIn(product_name) :
                        b = First(BrandsIn(product_name)) => ~Names(recs[i], BRAND_TO_CATEGORY[b][1])
                  /\ product_name = <<"S","o","n","y"," ","T","V">> =>
                        /\ Len(recs) = 4
                        /\ Names(recs[1], <<"L","G">>) /\ Names(recs[2], <<"T","C","L">>)
                        /\ Names(recs[3], <<"S","a","m","s","u","n","g">>) /\ Names(recs[4], <<"M","i">>)
                  /\ product_name = <<"U","n","k","n","o","w","n"," ","G","a","d","g","e","t">> => recs = <<>>

\* C15 witness: the analysis of a Sony television recommends four brands,
\* the first of them LG
C15_Witness ==
    /\ ReturnedNonEmpty
    /\ product_name = <<"S","o","n","y"," ","T","V">>
    /\ Len(result.recommended_products) = 4
    /\ Names(result.recommended_products[1], <<"L","G">>)

\* the aspects of an aspects map that are not General
DetectedCount(aspects) == Cardinality({i \in DOMAIN aspects : aspects[i].key # <<"G","e","n","e","r","a","l">>})

\* C16: _calculate_confidence is High iff review_count >= 20 and at least 5
\* aspects other than General, else Medium iff review_count >= 10 and at
\* least 3 such aspects, else Low; (25,6) High, (12,3) Medium, (5,1) Low.
C16_ConfidenceRule ==
    Called("_calculate_confidence") =>
        LET review_count == Len(call.args[1])
            aspect_count == DetectedCount(call.args[2])
            high == review_count >= 20 /\ aspect_count >= 5
            medium == review_count >= 10 /\ aspect_count >= 3
        IN  /\ call.ret = "High" <=> high
            /\ call.ret = "Medium" <=> (~high /\ medium)
            /\ call.ret = "Low" <=> (~high /\ ~medium)
            /\ (review_count = 25 /\ aspect_count = 6) => call.ret = "High"
            /\ (review_count = 12 /\ aspect_count = 3) => call.ret = "Medium"
            /\ (review_count = 5 /\ aspect_count = 1) => call.ret = "Low"

\* C16 witness: 25 reviews and four aspects plus General came out Medium
C16_Witness ==
    /\ Called("_calculate_confidence")
    /\ Len(call.args[1]) = 25
    /\ Len(call.args[2]) = 5 /\ DetectedCount(call.args[2]) = 4
    /\ call.ret = "Medium"

\* the reviews of the list that contain a keyword of the theme
Mentioning(revs, theme) ==
    {j \in DOMAIN revs :
        \E i \in DOMAIN theme_patterns :
            /\ theme_patterns[i][1] = theme
            /\ \E k \in DOMAIN theme_patterns[i][2] : Contains(theme_patterns[i][2][k], Lower(revs[j]))}

\* C17: key_themes has at most 5 entries, in descending order of
\* mention_count; the mention_count of a listed theme is the number of
\* cleaned reviews containing one of its keywords and is at least 1; a theme
\* some review mentions is listed.
C17_KeyThemes ==
    Called("_extract_key_themes") =>
        LET revs == call.args[1]
            themes == call.ret
        IN  /\ Len(themes) <= 5
            /\ \A i, j \in DOMAIN themes : i < j => themes[i].mention_count >= themes[j].mention_count
            /\ \A i \in DOMAIN themes :
                  /\ themes[i].mention_count >= 1
                  /\ themes[i].mention_count = Cardinality(Mentioning(revs, themes[i].theme))
            /\ \A i \in DOMAIN theme_patterns :
                  Mentioning(revs, theme_patterns[i][1]) # {}
                      => \E k \in DOMAIN themes : themes[k].theme = theme_patterns[i][1]

\* C17 witness: of two reviews, both on build quality and one on value, the
\* themes are Build Quality with 2 mentions, then Value for Money with 1
C17_Witness ==
    /\ Called("_extract_key_themes")
    /\ Len(call.ret) = 2
    /\ call.ret[1].theme = <<"B","u","i","l","d"," ","Q","u","a","l","i","t","y">> /\ call.ret[1].mention_count = 2
    /\ call.ret[2].theme = <<"V","a","l","u","e"," ","f","o","r"," ","M","o","n","e","y">> /\ call.ret[2].mention_count = 1

RECURSIVE TalliesAfter(_, _, _, _)
\* the tallies of the review loop of a call on its own, from review i on
TalliesAfter(data, clean, i, cat) ==
    IF i > Len(clean) THEN data
    ELSE TalliesAfter(AnalyzeReviewStep(data, clean[i], cat), clean, i + 1, cat)

\* what the call returns when no other call runs
AnalyzeAlone(name, revs) ==
    IF revs = <<>> THEN _empty_analysis(name)
    ELSE LET rec_data == recommend_competitors(name)
             clean == _clean_reviews(revs)
         IN  StructuredResponse(name, rec_data.category, rec_data.competitors, clean,
                                TalliesAfter(<<>>, clean, 1, rec_data.category))

\* thread t has returned from its call
ThreadDone(t) == threads[t].pc = "done"

\* C18: of two calls of analyze_reviews interleaved in any way on one
\* analyzer, each returns what it returns when run alone.
C18_ConcurrentCallsIndependent ==
    \A t \in Threads :
        ThreadDone(t) => threads[t].result = AnalyzeAlone(threads[t].product_name, threads[t].reviews)

\* C18 witness: one thread has returned a Camera verdict for one product
\* while the other is in the middle of the review loop for another product
C18_Witness ==
    /\ ThreadDone(1)
    /\ threads[1].product_name = <<"S","a","m","s","u","n","g"," ","G","a","l","a","x","y">>
    /\ <<"C","a","m","e","r","a">> \in AspectKeys(threads[1].result.aspects)
    /\ threads[2].pc = "aspects"
    /\ threads[2].product_name = <<"S","o","n","y"," ","T","V">>
    /\ threads[2].idx = 2
    /\ Len(threads[2].clean_reviews) = 2

InvalidUrl(url) ==
    \/ Contains(<<"/","s","?">>, url) \/ Contains(<<"/","s","e","a","r","c","h","?">>, url)
    \/ (~Contains(<<"/","p","/">>, url) /\ ~Contains(<<"/","p","r","o","d","u","c","t","-","r","e","v","i","e","w","s","/">>, url))

\* C20: get_flipkart_reviews rejects an invalid URL before it issues any
\* HTTP request and, for max_reviews >= 1, returns min(max_reviews, 20) mock
\* reviews, the first by "John D.", not scraped ones.
C20_InvalidUrlMocked ==
    /\ (scraper.pc # "idle" /\ InvalidUrl(scraper.product_url)) =>
          /\ scraper.pc = "done"
          /\ scraper.http_requests = 0
          /\ scraper.max_reviews >= 1 =>
                /\ Len(scraper.ret) = (IF scraper.max_reviews < 20 THEN scraper.max_reviews ELSE 20)
                /\ scraper.ret[1].reviewer = "John D."
                /\ \A i \in DOMAIN scraper.ret :
                      /\ scraper.ret[i].reviewer = mock_reviews_data[i][3]
                      /\ scraper.ret[i].review_text = mock_reviews_data[i][1]
                      /\ scraper.ret[i].product_name = "Flipkart Product"
    /\ scraper.product_url = <<"h","t","t","p","s",":","/","/","w","w","w",".","f","l","i","p","k","a","r","t",".","c","o","m","/","s","e","a","r","c","h","?","q","=","p","h","o","n","e">> => scraper.http_requests = 0

\* C20 witness: the call for a search URL and 2 reviews returned two mock
\* reviews, the first by "John D."
C20_Witness ==
    /\ scraper.pc = "done"
    /\ scraper.product_url = <<"h","t","t","p","s",":","/","/","w","w","w",".","f","l","i","p","k","a","r","t",".","c","o","m","/","s","e","a","r","c","h","?","q","=","p","h","o","n","e">>
    /\ scraper.max_reviews = 2
    /\ Len(scraper.ret) = 2
    /\ scraper.ret[1].reviewer = "John D."
    /\ scraper.http_requests = 0

\* the latest set_cached(identifier, source, _) the cache was given, if any
LatestSet(identifier, source) ==
    {i \in DOMAIN cache.stored : cache.stored[i].identifier = identifier /\ cache.stored[i].source = source}

\* C21: in-memory backend: get_cached(identifier, source) returns the list
\* R of the latest set_cached(identifier, source, R) when it is called
\* before the expiry time of the entry (time of the set + expiry_hours);
\* called after the expiry time it returns None and the entry is removed
\* from memory_cache; for a pair never stored it returns None (no
\* clear_cache having been called since the set)
C21_CachedUntilExpiry ==
    (cache.fn = "get_cached" /\ ~cache.use_db) =>
        LET latest == LatestSet(cache.identifier, cache.source)
        IN  IF latest = {} THEN cache.ret = <<>>
            ELSE \A i \in latest :
                    ~cache.stored[i].cleared =>
                        /\ cache.now < cache.stored[i].at + expiry_hours =>
                              cache.ret = <<cache.stored[i].reviews>>
                        /\ cache.now > cache.stored[i].at + expiry_hours =>
                              /\ cache.ret = <<>>
                              /\ \A j \in DOMAIN cache.memory_cache :
                                    cache.memory_cache[j].key # _generate_key(cache.identifier, cache.source)

\* an in-memory cache has returned the example list of cache.py before its
\* expiry time
C21_Witness ==
    /\ cache.fn = "get_cached" /\ ~cache.use_db
    /\ cache.identifier = <<"u","1">> /\ cache.source = <<"a","m","a","z","o","n">>
    /\ \E i \in LatestSet(<<"u","1">>, <<"a","m","a","z","o","n">>) :
          /\ ~cache.stored[i].cleared
          /\ cache.now < cache.stored[i].at + expiry_hours
          /\ Len(cache.stored[i].reviews) = 1 /\ cache.stored[i].reviews[1].review_text = <<"G","r","e","a","t","!">>
    /\ Len(cache.ret) = 1 /\ cache.ret[1][1].review_text = <<"G","r","e","a","t","!">>

\* C22: clear_cache(source=s) clears source s only: after it get_cached
\* returns None for every (identifier, s) that was stored, and returns what
\* it returned before for every pair stored under another source;
\* clear_cache() removes every entry; on both backends
C22_ClearOnlySource ==
    [][cache'.fn = "clear_cache" =>
          \A identifier \in CacheIdentifiers, source \in CacheSources :
              LatestSet(identifier, source) # {} =>
                  IF cache'.source = <<>> \/ cache'.source = source
                  THEN get_cached(cache', identifier, source).ret = <<>>
                  ELSE get_cached(cache', identifier, source).ret = get_cached(cache, identifier, source).ret]_vars

\* the part-of-speech pass adds nothing: NLTK is missing, or no cleaned
\* review yields an adjective + noun pair
PosSignalAbsent ==
    \A j \in DOMAIN clean_reviews : ~NLTK_AVAILABLE \/ _extract_pos_aspects(clean_reviews[j]) = <<>>

\* the cleaned reviews that hold one of the keywords, as a substring of the
\* lower-cased or of the lemmatized text
Holding(keywords) ==
    {j \in DOMAIN clean_reviews :
        \E k \in DOMAIN keywords :
            \/ Contains(Lower(keywords[k]), Lower(clean_reviews[j]))
            \/ Contains(Lower(keywords[k]), _lemmatize_text(clean_reviews[j]))}

\* C23: with the part-of-speech signal absent, an aspect has an entry in the
\* aspects map iff it is active for the detected category and some cleaned
\* review holds one of its keywords; the entry counts those reviews; the
\* keywords tried in the reverse order match the same reviews; an entry
\* other than General never has a count of zero
C23_KeywordAspects ==
    (ReturnedNonEmpty /\ PosSignalAbsent) =>
        /\ \A i \in DOMAIN aspect_keywords :
              LET aspect == aspect_keywords[i][1]
                  keywords == aspect_keywords[i][2]
                  entries == {e \in DOMAIN result.aspects : result.aspects[e].key = Capitalize(aspect)}
                  reversed == [k \in DOMAIN keywords |-> keywords_lower[i][Len(keywords) + 1 - k]]
              IN  /\ entries # {} <=> (aspect \in ActiveAspects(result.category) /\ Holding(keywords) # {})
                  /\ \A e \in entries : result.aspects[e].v.count = Cardinality(Holding(keywords))
                  /\ \A j \in DOMAIN clean_reviews :
                        KeywordMatched(reversed, Lower(clean_reviews[j]), _lemmatize_text(clean_reviews[j]))
                            <=> j \in Holding(keywords)
        /\ \A e \in DOMAIN result.aspects :
              \/ OnlyGeneral(result.aspects)
              \/ /\ result.aspects[e].v.count >= 1
                 /\ \E i \in DOMAIN aspect_keywords : result.aspects[e].key = Capitalize(aspect_keywords[i][1])

\* C23 witness: a television result without NLTK whose review "good value"
\* holds the fourth keyword of price, and no camera entry for the review
\* "great camera"
C23_Witness ==
    /\ ReturnedNonEmpty /\ PosSignalAbsent /\ ~NLTK_AVAILABLE
    /\ result.category = <<"t","e","l","e","v","i","s","i","o","n">>
    /\ clean_reviews = <<<<"g","o","o","d"," ","v","a","l","u","e">>, <<"g","r","e","a","t"," ","c","a","m","e","r","a">>>>
    /\ AspectKeys(result.aspects) = {<<"P","r","i","c","e">>}

\* the reviews of the list mentioning the theme whose sentence sentiment is
\* the given one
MentioningWith(revs, theme, sentiment) ==
    {j \in Mentioning(revs, theme) : _get_sentence_sentiment(revs[j]) = sentiment}

FirstWith(aspects, sentiment, n) ==
    LET with == {i \in DOMAIN aspects : aspects[i].v.sentiment = sentiment}
    IN  {i \in with : Cardinality({j \in with : j < i}) < n}

\* the names of the entries, in map order, joined by ", "
NamesOf(aspects, entries) ==
    JoinWith(<<","," ">>, [k \in 1..Cardinality(entries) |->
                        aspects[CHOOSE i \in entries : Cardinality({j \in entries : j < i}) = k - 1].key])

\* "label: names" of the entries followed by end, nothing when there are none
Clause(label, aspects, entries, end) ==
    IF entries = {} THEN <<>> ELSE label \o <<":"," ">> \o NamesOf(aspects, entries) \o end

\* C25: more than 60% positive reviews: "Highly recommended ...", the first
\* 3 positive and the first 2 negative aspect names; else more than 50%
\* negative: "Product has significant issues ...", the first 3 negative
\* names, "Consider alternatives carefully."; else "Mixed reviews ...", the
\* first 2 of each. Exactly 60% positive or exactly 50% negative does not
\* take its branch. The names are those whose verdict in the aspects map is
\* positive (negative), in map order, and nothing else follows the opener,
\* which ends at the first full stop.
C25_OverallFeedback ==
    Called("_generate_overall_feedback") =>
        LET revs == call.args[1]
            aspects == call.args[2]
            feedback == call.ret
            pos == Cardinality({j \in DOMAIN revs : _get_sentence_sentiment(revs[j]) = "positive"})
            neg == Cardinality({j \in DOMAIN revs : _get_sentence_sentiment(revs[j]) = "negative"})
            stops == {k \in DOMAIN feedback : feedback[k] = "."}
            opener == CHOOSE k \in stops : \A j \in stops : k <= j
        IN  /\ stops # {}
            /\ \A branch \in {IF 100 * pos > 60 * Len(revs) THEN 1 ELSE IF 100 * neg > 50 * Len(revs) THEN 2 ELSE 3},
                  rest \in {SubSeq(feedback, opener + 2, Len(feedback))} :
                  LET positives == FirstWith(aspects, "positive", IF branch = 1 THEN 3 ELSE 2)
                      negatives == FirstWith(aspects, "negative", IF branch = 2 THEN 3 ELSE 2)
                  IN  /\ branch = 1 =>
                            /\ Prefix(feedback, 26) = <<"H","i","g","h","l","y"," ","r","e","c","o","m","m","e","n","d","e","d"," ","p","r","o","d","u","c","t">>
                            /\ rest = Strip(Clause(<<"S","t","r","o","n","g"," ","p","o","i","n","t","s">>, aspects, positives, <<"."," ">>)
                                            \o Clause(<<"M","i","n","o","r"," ","c","o","n","c","e","r","n","s">>, aspects, negatives, <<".">>))
                      /\ branch = 2 =>
                            /\ Prefix(feedback, 30) = <<"P","r","o","d","u","c","t"," ","h","a","s"," ","s","i","g","n","i","f","i","c","a","n","t"," ","i","s","s","u","e","s">>
                            /\ rest = Clause(<<"M","a","i","n"," ","p","r","o","b","l","e","m","s">>, aspects, negatives, <<"."," ">>)
                                      \o <<"C","o","n","s","i","d","e","r"," ","a","l","t","e","r","n","a","t","i","v","e","s"," ","c","a","r","e","f","u","l","l","y",".">>
                      /\ branch = 3 =>
                            /\ Prefix(feedback, 13) = <<"M","i","x","e","d"," ","r","e","v","i","e","w","s">>
                            /\ rest = Strip(Clause(<<"S","t","r","e","n","g","t","h","s">>, aspects, positives, <<"."," ">>)
                                            \o Clause(<<"W","e","a","k","n","e","s","s","e","s">>, aspects, negatives, <<".">>))

\* C25 witness: 3 positive reviews of 5 (exactly 60%) and 1 negative, with
\* three positive aspects and one negative: the mixed opener, the first two
\* positive names, the negative name
C25_Witness ==
    /\ Called("_generate_overall_feedback")
    /\ call.args[1] = <<<<"g","o","o","d">>, <<"g","o","o","d">>, <<"g","o","o","d">>, <<"B","a","d">>, <<"o","k","a","y">>>>
    /\ Len(call.args[2]) = 4
    /\ call.ret = <<"M","i","x","e","d"," ","r","e","v","i","e","w","s"," ","(","6","0","%"," ","p","o","s","i","t","i","v","e",","," ","2","0","%"," ","n","e","g","a","t","i","v","e",")","."," ","S","t","r","e","n","g","t","h","s",":"," ","B","a","t","t","e","r","y",","," ","D","i","s","p","l","a","y","."," ","W","e","a","k","n","e","s","s","e","s",":"," ","D","e","s","i","g","n",".">>

\* the aspect of the map has a negative verdict
NegativeVerdict(aspects, key) ==
    \E i \in DOMAIN aspects : aspects[i].key = key /\ aspects[i].v.sentiment = "negative"

\* C26: at most 4 recommendations are built; the reason of the one at index
\* 0 to 3 is the template of that index followed by the battery clause if
\* Battery has a negative verdict, else the camera clause if Camera has,
\* else the performance clause if Performance has, else by nothing; so all
\* recommendations of a result carry the same clause
C26_RecommendationReasons ==
    Called("_build_competitor_recommendations") =>
        LET cat == call.args[2]
            aspects == call.args[4]
            template == << <<"A","l","t","e","r","n","a","t","i","v","e"," ">> \o cat \o <<" ","o","p","t","i","o","n"," ","w","i","t","h"," ","e","s","t","a","b","l","i","s","h","e","d"," ","b","r","a","n","d"," ","r","e","p","u","t","a","t","i","o","n">>,
                           <<"K","n","o","w","n"," ","f","o","r"," ","r","e","l","i","a","b","i","l","i","t","y"," ","i","n"," ","t","h","e"," ">> \o cat \o <<" ","s","e","g","m","e","n","t">>,
                           <<"P","o","p","u","l","a","r"," ","c","h","o","i","c","e"," ","o","f","f","e","r","i","n","g"," ","c","o","m","p","e","t","i","t","i","v","e"," ","f","e","a","t","u","r","e","s">>,
                           <<"B","u","d","g","e","t","-","f","r","i","e","n","d","l","y"," ","a","l","t","e","r","n","a","t","i","v","e"," ","i","n"," ">> \o cat \o <<" ","c","a","t","e","g","o","r","y">> >>
            clause == IF NegativeVerdict(aspects, <<"B","a","t","t","e","r","y">>) THEN <<" ","-"," ","k","n","o","w","n"," ","f","o","r"," ","b","e","t","t","e","r"," ","b","a","t","t","e","r","y"," ","p","e","r","f","o","r","m","a","n","c","e">>
                      ELSE IF NegativeVerdict(aspects, <<"C","a","m","e","r","a">>) THEN <<" ","-"," ","s","t","r","o","n","g"," ","c","a","m","e","r","a"," ","c","a","p","a","b","i","l","i","t","i","e","s">>
                      ELSE IF NegativeVerdict(aspects, <<"P","e","r","f","o","r","m","a","n","c","e">>) THEN <<" ","-"," ","s","u","p","e","r","i","o","r"," ","p","r","o","c","e","s","s","i","n","g"," ","p","o","w","e","r">>
                      ELSE <<>>
        IN  /\ Len(call.ret) <= 4
            /\ \A i \in DOMAIN call.ret : call.ret[i].reason = template[i] \o clause

\* C26 witness: Camera and Performance are negative, Battery is not: each
\* of the 4 recommendations carries the camera clause alone
C26_Witness ==
    /\ Called("_build_competitor_recommendations")
    /\ ~NegativeVerdict(call.args[4], <<"B","a","t","t","e","r","y">>)
    /\ NegativeVerdict(call.args[4], <<"C","a","m","e","r","a">>) /\ NegativeVerdict(call.args[4], <<"P","e","r","f","o","r","m","a","n","c","e">>)
    /\ Len(call.args[3]) = 5 /\ Len(call.ret) = 4
    /\ call.ret[4].reason = <<"B","u","d","g","e","t","-","f","r","i","e","n","d","l","y"," ","a","l","t","e","r","n","a","t","i","v","e"," ","i","n"," ","m","o","b","i","l","e"," ","c","a","t","e","g","o","r","y"," ","-"," ","s","t","r","o","n","g"," ","c","a","m","e","r","a"," ","c","a","p","a","b","i","l","i","t","i","e","s">>

\* C27: once the analyzer is constructed, no step of any call of
\* analyze_reviews changes the aspect keyword registry, the category
\* activation table, the positive and negative word sets, the brand table or
\* the competitor table
C27_TablesUnchanged ==
    [][loaded = "ok" => (tables' = tables /\ tables' = ConstructedTables)]_vars

\* C27 witness: a call has returned, on reviews that matched an aspect, and
\* the tables are those constructed
C27_Witness ==
    /\ ReturnedNonEmpty
    /\ confidence_calls # <<>>
    /\ \E i \in DOMAIN result.aspects : result.aspects[i].key = <<"P","r","i","c","e">>
    /\ tables = ConstructedTables

\* the categories that have an activation list
Activated == {category_aspects[i][1] : i \in DOMAIN category_aspects}

\* the registered aspects remote, airflow and compressor
Unlisted == {<<"r","e","m","o","t","e">>, <<"a","i","r","f","l","o","w">>, <<"c","o","m","p","r","e","s","s","o","r">>}

\* C28: every category detect_product_category returns (that of a brand,
\* that of a keyword list, "general") has an activation list, so a call of
\* analyze_reviews never falls back to all registered aspects; remote,
\* airflow and compressor are registered, are in no activation list, and
\* are never tallied by the keyword pass, so without the part-of-speech
\* signal never in the aspects map
C28_NoFallback ==
    /\ \A i \in DOMAIN BRAND_TO_CATEGORY : BRAND_TO_CATEGORY[i][2] \in Activated
    /\ \A i \in DOMAIN CATEGORY_KEYWORDS : CATEGORY_KEYWORDS[i][1] \in Activated
    /\ <<"g","e","n","e","r","a","l">> \in Activated
    /\ \A aspect \in Unlisted :
          /\ \E i \in DOMAIN aspect_keywords : aspect_keywords[i][1] = aspect
          /\ \A i \in DOMAIN category_aspects : aspect \notin category_aspects[i][2]
    /\ (pc \in {"aspects", "done"} /\ reviews # <<>>) =>
          /\ category \in Activated
          /\ ActiveAspects(category) \cap Unlisted = {}
          /\ \A j \in DOMAIN clean_reviews :
                LET review == clean_reviews[j]
                    tallied == KeywordPass(<<>>, 1, review, Lower(review), _lemmatize_text(review),
                                           "neutral", ActiveAspects(category))
                IN  \A k \in DOMAIN tallied : tallied[k].name \notin Unlisted
          /\ (pc = "done" /\ PosSignalAbsent) =>
                \A aspect \in Unlisted : Capitalize(aspect) \notin AspectKeys(result.aspects)

\* C28 witness: without NLTK the review "good remote" of a television has
\* left no Remote entry, only General
C28_Witness ==
    /\ ReturnedNonEmpty /\ ~NLTK_AVAILABLE
    /\ result.category = <<"t","e","l","e","v","i","s","i","o","n">>
    /\ clean_reviews = <<<<"g","o","o","d"," ","r","e","m","o","t","e">>>>
    /\ OnlyGeneral(result.aspects)

\* the call is in or past its loop over the review pages
InPageLoop == scraper.pc \in {"pages", "finish"} \/ (scraper.pc = "done" /\ scraper.page >= 1)

\* C29: a call of get_flipkart_reviews that has reached the page loop
\* returns, whatever the server answers; at most 5 review pages are
\* requested (page - 1 of them before the request of `page`); once 3 pages
\* in a row gave no parsed review the next step is the return; the list
\* returned has at most max_reviews entries (max_reviews >= 0), the scraped
\* reviews, or the mock reviews when none was scraped
C29_PageLoopTerminates ==
    /\ [](InPageLoop =>
            /\ scraper.page <= 6
            /\ scraper.pc = "finish" => scraper.page <= 5
            /\ scraper.consecutive_failures <= 3
            /\ Len(scraper.reviews) <= scraper.max_reviews
            /\ scraper.pc = "done" =>
                  /\ Len(scraper.ret) <= scraper.max_reviews
                  /\ scraper.ret = IF scraper.reviews = <<>>
                                   THEN generate_mock_reviews(scraper.product_name, "Flipkart", scraper.max_reviews)
                                   ELSE scraper.reviews)
    /\ [][(scraper.pc \in {"pages", "finish"} /\ (scraper.consecutive_failures >= 3 \/ scraper.page > 5))
              => scraper'.pc = "done"]_vars
    /\ (scraper.pc \in {"name", "pages", "finish"} ~> scraper.pc = "done")

\* C29 witness: three pages in a row gave no review, the loop was left
\* before the fourth page and the mock reviews were returned
C29_Witness ==
    /\ scraper.pc = "done" /\ scraper.page = 4
    /\ scraper.consecutive_failures = 3
    /\ scraper.reviews = <<>>
    /\ scraper.max_reviews = 2 /\ Len(scraper.ret) = 2
    /\ scraper.ret = generate_mock_reviews(scraper.product_name, "Flipkart", 2)

\* C30: _make_request makes at most max_retries = 3 attempts; it returns
\* the response at the first attempt answered with status 200, returns None
\* at the first attempt answered with 404 or 403, with no attempt after it,
\* goes on to the next attempt after any other status, a timeout or an
\* error, and returns None after a third failed attempt
C30_MakeRequestRetries ==
    Called("_make_request") =>
        LET answers == call.args[1]
            final == {i \in DOMAIN answers : answers[i] \in {"200", "404", "403"}}
        IN  /\ max_retries = 3
            /\ call.ret.attempts \in 1..max_retries
            /\ IF final = {}
               THEN call.ret.attempts = max_retries /\ ~call.ret.ok
               ELSE \E first \in final :
                       /\ \A i \in final : first <= i
                       /\ call.ret.attempts = first
                       /\ call.ret.ok <=> answers[first] = "200"

\* C30 witness: a 500, then a 403, then what would have been a 200: None
\* after two attempts
C30_Witness ==
    /\ Called("_make_request")
    /\ call.args[1] = <<"500", "403", "200">>
    /\ call.ret = [ok |-> FALSE, attempts |-> 2]

====
